---- MODULE Spec2Model ----
(***************************************************************************)
(* A model of inkmcp's colour utilities (inkmcpops/color_utils.py): the    *)
(* hex / rgb / CIE LAB conversion chain, the grayscale classifier, the     *)
(* colour normaliser, the document colour extractor and the greedy         *)
(* palette mapper.                                                         *)
(*                                                                         *)
(* Python strings are TLA+ strings; s[i] is Char(s, i).  Python's None is  *)
(* the value None below, and a raised exception is a result record whose   *)
(* field "raised" names the exception class.  Floating point LAB           *)
(* coordinates are fixed point integers in units of 1/100.                 *)
(***************************************************************************)
EXTENDS Integers, Sequences, FiniteSets, TLC

\* ------------------------------------------------------------------ bounds
\* Longest string of the exhaustive input alphabet handed to the string functions.
MaxLen == 4

\* ------------------------------------------------------------ python strings
None == "<None>"

Char(s, i) == SubSeq(s, i, i)

WHITESPACE == {" ", "\t", "\n", "\r", "\f"}

RECURSIVE LStrip(_)
LStrip(s) == IF Len(s) > 0 /\ Char(s, 1) \in WHITESPACE THEN LStrip(Tail(s)) ELSE s

RECURSIVE RStrip(_)
RStrip(s) ==
    IF Len(s) > 0 /\ Char(s, Len(s)) \in WHITESPACE
    THEN RStrip(SubSeq(s, 1, Len(s) - 1))
    ELSE s

\* str.strip()
Strip(s) == RStrip(LStrip(s))

\* str.lstrip("#")
RECURSIVE LStripHash(_)
LStripHash(s) == IF Len(s) > 0 /\ Char(s, 1) = "#" THEN LStripHash(Tail(s)) ELSE s

\* The lowercase letter of every uppercase letter.
LOWER_OF ==
    ("A" :> "a") @@ ("B" :> "b") @@ ("C" :> "c") @@ ("D" :> "d") @@ ("E" :> "e") @@ ("F" :> "f") @@
    ("G" :> "g") @@ ("H" :> "h") @@ ("I" :> "i") @@ ("J" :> "j") @@ ("K" :> "k") @@ ("L" :> "l") @@
    ("M" :> "m") @@ ("N" :> "n") @@ ("O" :> "o") @@ ("P" :> "p") @@ ("Q" :> "q") @@ ("R" :> "r") @@
    ("S" :> "s") @@ ("T" :> "t") @@ ("U" :> "u") @@ ("V" :> "v") @@ ("W" :> "w") @@ ("X" :> "x") @@
    ("Y" :> "y") @@ ("Z" :> "z")

LowerChar(c) == IF c \in DOMAIN LOWER_OF THEN LOWER_OF[c] ELSE c

\* str.lower()
RECURSIVE Lower(_)
Lower(s) == IF s = "" THEN "" ELSE LowerChar(Char(s, 1)) \o Lower(Tail(s))

\* str.startswith(p)
StartsWith(s, p) == Len(s) >= Len(p) /\ SubSeq(s, 1, Len(p)) = p

HEXDIGITS == "0123456789abcdef"

\* The value of every digit int(s, 16) accepts.
HEX_VALUE ==
    ("0" :> 0) @@ ("1" :> 1) @@ ("2" :> 2) @@ ("3" :> 3) @@ ("4" :> 4) @@ ("5" :> 5) @@
    ("6" :> 6) @@ ("7" :> 7) @@ ("8" :> 8) @@ ("9" :> 9) @@ ("a" :> 10) @@ ("b" :> 11) @@
    ("c" :> 12) @@ ("d" :> 13) @@ ("e" :> 14) @@ ("f" :> 15) @@ ("A" :> 10) @@ ("B" :> 11) @@
    ("C" :> 12) @@ ("D" :> 13) @@ ("E" :> 14) @@ ("F" :> 15)

IsHexDigit(c) == c \in DOMAIN HEX_VALUE

HexValue(c) == HEX_VALUE[c]

IsDecDigit(c) == c \in {"0", "1", "2", "3", "4", "5", "6", "7", "8", "9"}

\* ------------------------------------------------------------- int(s, 16)
\* The digit part of an integer literal: digits with single underscores between
\* them, no leading, trailing or doubled underscore.
RECURSIVE DigitsOk(_, _)
DigitsOk(d, prevDigit) ==
    IF d = "" THEN prevDigit
    ELSE IF Char(d, 1) = "_" THEN prevDigit /\ DigitsOk(Tail(d), FALSE)
    ELSE IsHexDigit(Char(d, 1)) /\ DigitsOk(Tail(d), TRUE)

RECURSIVE DigitsValue(_, _)
DigitsValue(d, acc) ==
    IF d = "" THEN acc
    ELSE IF Char(d, 1) = "_" THEN DigitsValue(Tail(d), acc)
    ELSE DigitsValue(Tail(d), 16 * acc + HexValue(Char(d, 1)))

\* int(s, 16), the digits reached: they must be there, must not start with an
\* underscore and must be well formed.  [ok |-> FALSE] stands for ValueError.
IntOfDigits(d, negative) ==
    IF d # "" /\ Char(d, 1) # "_" /\ DigitsOk(d, FALSE)
    THEN [ok |-> TRUE, val |-> (IF negative THEN -1 ELSE 1) * DigitsValue(d, 0)]
    ELSE [ok |-> FALSE, val |-> 0]

\* int(s, 16) after the sign: an optional 0x / 0X prefix, which one underscore may
\* follow.
IntAfterSign(u, negative) ==
    IntOfDigits(IF Len(u) >= 2 /\ Char(u, 1) = "0" /\ Char(u, 2) \in {"x", "X"}
                THEN SubSeq(u, IF Len(u) >= 3 /\ Char(u, 3) = "_" THEN 4 ELSE 3, Len(u))
                ELSE u,
                negative)

\* int(s, 16) after the surrounding whitespace is stripped: one sign is accepted.
IntStripped(t) ==
    IntAfterSign(IF Len(t) > 0 /\ Char(t, 1) \in {"+", "-"} THEN Tail(t) ELSE t,
                 Len(t) > 0 /\ Char(t, 1) = "-")

\* Python's int(s, 16).
PyInt16(s) == IntStripped(Strip(s))

\* ------------------------------------------------------------ named colours
NAMED_COLORS ==
    ("black" :> "#000000") @@ ("white" :> "#ffffff") @@ ("red" :> "#ff0000") @@
    ("green" :> "#008000") @@ ("blue" :> "#0000ff") @@ ("yellow" :> "#ffff00") @@
    ("cyan" :> "#00ffff") @@ ("magenta" :> "#ff00ff") @@ ("orange" :> "#ffa500") @@
    ("purple" :> "#800080") @@ ("pink" :> "#ffc0cb") @@ ("brown" :> "#a52a2a") @@
    ("gray" :> "#808080") @@ ("grey" :> "#808080") @@ ("silver" :> "#c0c0c0") @@
    ("navy" :> "#000080") @@ ("teal" :> "#008080") @@ ("maroon" :> "#800000") @@
    ("olive" :> "#808000") @@ ("lime" :> "#00ff00") @@ ("aqua" :> "#00ffff") @@
    ("fuchsia" :> "#ff00ff") @@ ("coral" :> "#ff7f50") @@ ("salmon" :> "#fa8072") @@
    ("gold" :> "#ffd700") @@ ("khaki" :> "#f0e68c") @@ ("plum" :> "#dda0dd") @@
    ("tan" :> "#d2b48c") @@ ("beige" :> "#f5f5dc") @@ ("ivory" :> "#fffff0") @@
    ("indigo" :> "#4b0082") @@ ("violet" :> "#ee82ee") @@ ("crimson" :> "#dc143c") @@
    ("tomato" :> "#ff6347") @@ ("steelblue" :> "#4682b4") @@ ("darkblue" :> "#00008b") @@
    ("darkgreen" :> "#006400") @@ ("darkred" :> "#8b0000") @@ ("lightblue" :> "#add8e6") @@
    ("lightgreen" :> "#90ee90") @@ ("lightgray" :> "#d3d3d3") @@ ("lightgrey" :> "#d3d3d3") @@
    ("darkgray" :> "#a9a9a9") @@ ("darkgrey" :> "#a9a9a9")

\* ------------------------------------------------- hex -> RGB -> XYZ -> LAB
\* "if len(h) == 3: h = h[0] * 2 + h[1] * 2 + h[2] * 2"
ExpandShorthand(h) ==
    IF Len(h) = 3
    THEN Char(h, 1) \o Char(h, 1) \o Char(h, 2) \o Char(h, 2) \o Char(h, 3) \o Char(h, 3)
    ELSE h

\* "return int(h[0:2], 16), int(h[2:4], 16), int(h[4:6], 16)": a field int() rejects
\* raises ValueError.
RgbOfFields(r, g, b) ==
    IF r.ok /\ g.ok /\ b.ok
    THEN [raised |-> "", val |-> <<r.val, g.val, b.val>>]
    ELSE [raised |-> "ValueError", val |-> <<>>]

RgbOfDigits(h) ==
    IF Len(h) # 6 THEN [raised |-> "ValueError", val |-> <<>>]
    ELSE RgbOfFields(PyInt16(SubSeq(h, 1, 2)), PyInt16(SubSeq(h, 3, 4)),
                     PyInt16(SubSeq(h, 5, 6)))

\* hex_to_rgb: [raised |-> "", val |-> <<r, g, b>>], or raised = "ValueError".
hex_to_rgb(hex_color) == RgbOfDigits(ExpandShorthand(LStripHash(hex_color)))

\* format(n, "x")
RECURSIVE HexOf(_)
HexOf(n) == IF n < 16 THEN Char(HEXDIGITS, n + 1)
            ELSE HexOf(n \div 16) \o Char(HEXDIGITS, (n % 16) + 1)

\* Format02x without the zero padding: format(n, "x").
Format02x_NoPad(n) == (IF n < 0 THEN "-" ELSE "") \o HexOf(IF n < 0 THEN 0 - n ELSE n)

\* format(n, "02x"): sign, then the digits zero-padded to a total width of 2.
Format02x(n) ==
    LET sign == IF n < 0 THEN "-" ELSE ""
        digits == HexOf(IF n < 0 THEN 0 - n ELSE n)
    IN  IF Len(sign) + Len(digits) < 2 THEN sign \o "0" \o digits ELSE sign \o digits

rgb_to_hex(r, g, b) == "#" \o Format02x(r) \o Format02x(g) \o Format02x(b)

SRGB_POWER ==
    <<
       0, 30, 61, 91, 121, 152, 182, 212, 243, 273, 304, 335,
       368, 402, 439, 478, 518, 561, 605, 651, 700, 750, 802, 857,
       913, 972, 1033, 1096, 1161, 1229, 1298, 1370, 1444, 1521, 1600, 1681,
       1764, 1850, 1938, 2029, 2122, 2217, 2315, 2416, 2519, 2624, 2732, 2843,
       2956, 3071, 3190, 3310, 3434, 3560, 3689, 3820, 3955, 4092, 4231, 4374,
       4519, 4667, 4817, 4971, 5127, 5286, 5448, 5613, 5781, 5951, 6125, 6301,
       6480, 6663, 6848, 7036, 7227, 7421, 7619, 7819, 8022, 8228, 8438, 8650,
       8866, 9084, 9306, 9531, 9759, 9990, 10224, 10462, 10702, 10946, 11193, 11444,
       11697, 11954, 12214, 12477, 12744, 13014, 13287, 13563, 13843, 14126, 14413, 14703,
       14996, 15293, 15593, 15896, 16203, 16513, 16827, 17144, 17465, 17789, 18116, 18447,
       18782, 19120, 19462, 19807, 20156, 20508, 20864, 21223, 21586, 21953, 22323, 22697,
       23074, 23455, 23840, 24228, 24620, 25016, 25415, 25818, 26225, 26636, 27050, 27468,
       27889, 28315, 28744, 29177, 29614, 30054, 30499, 30947, 31399, 31855, 32314, 32778,
       33245, 33716, 34191, 34670, 35153, 35640, 36131, 36625, 37124, 37626, 38133, 38643,
       39157, 39676, 40198, 40724, 41254, 41789, 42327, 42869, 43415, 43966, 44520, 45079,
       45641, 46208, 46778, 47353, 47932, 48515, 49102, 49693, 50289, 50888, 51492, 52100,
       52712, 53328, 53948, 54572, 55201, 55834, 56471, 57112, 57758, 58408, 59062, 59720,
       60383, 61050, 61721, 62396, 63076, 63760, 64448, 65141, 65837, 66539, 67244, 67954,
       68669, 69387, 70110, 70838, 71569, 72306, 73046, 73791, 74540, 75294, 76052, 76815,
       77582, 78354, 79130, 79910, 80695, 81485, 82279, 83077, 83880, 84687, 85499, 86316,
       87137, 87962, 88792, 89627, 90466, 91310, 92158, 93011, 93869, 94731, 95597, 96469,
       97345, 98225, 99110, 100000
    >>

\* linearize(c), in units of 1/100000: c / 255 / 12.92 on the linear segment
\* (c / 255 <= 0.04045), and ((c / 255 + 0.055) / 1.055) ** 2.4 above it, the power
\* tabulated per 8-bit channel value in SRGB_POWER.
linearize(c) ==
    IF c * 100000 <= 4045 * 255 THEN (c * 10000000) \div 329460
    ELSE SRGB_POWER[c + 1]

\* Whether k^3 <= t * 10^7, for t in units of 1/100000, without leaving 32 bits.
CubeAtMost(k, t) ==
    k * k <= ((t * 10000) \div k) * 1000 + (((t * 10000) % k) * 1000) \div k

\* The largest k in lo..hi with k^3 <= t * 10^7: t ** (1/3) in units of 1/10000.
RECURSIVE CubeRoot(_, _, _)
CubeRoot(t, lo, hi) ==
    IF lo >= hi THEN lo
    ELSE LET mid == (lo + hi + 1) \div 2
         IN  IF CubeAtMost(mid, t) THEN CubeRoot(t, mid, hi) ELSE CubeRoot(t, lo, mid - 1)

\* f(t) of rgb_to_lab, t in units of 1/100000, the result in units of 1/10000:
\* the cube root above delta ** 3 = 0.008856, t / (3 * delta * delta) + 4 / 29 below.
lab_f(t) ==
    IF t > 885 THEN CubeRoot(t, 2000, 10100)
    ELSE (7787 * t) \div 10000 + 1379

\* L, a and b from f(x / xn), f(y / yn) and f(z / zn), in units of 1/100.
LabOfF(fx, fy, fz) == <<(116 * fy - 160000) \div 100, 5 * (fx - fy), 2 * (fy - fz)>>

\* Linear sRGB to XYZ (D65), each row divided by its reference white.  The matrix
\* coefficients are those of the source rounded to four places.
LabOfLinear(rl, gl, bl) ==
    LabOfF(lab_f((rl * 4125 + gl * 3576 + bl * 1804) \div 9505),
           lab_f((rl * 2127 + gl * 7152 + bl * 722) \div 10000),
           lab_f((rl * 193 + gl * 1192 + bl * 9503) \div 10888))

\* rgb_to_lab: <<L, a, b>> in units of 1/100.
rgb_to_lab(r, g, b) == LabOfLinear(linearize(r), linearize(g), linearize(b))

\* "rgb_to_lab(*rgb)", the ValueError of hex_to_rgb passed on.
LabOfRgb(rgb) ==
    IF rgb.raised # "" THEN rgb
    ELSE [raised |-> "", val |-> rgb_to_lab(rgb.val[1], rgb.val[2], rgb.val[3])]

\* hex_to_lab: [raised |-> "", val |-> <<L, a, b>>], or raised = "ValueError".
hex_to_lab(hex_color) == LabOfRgb(hex_to_rgb(hex_color))

\* delta_e squared (units of 1/10000): the code compares distances only, and the
\* square root is monotone.
delta_e(lab1, lab2) ==
    (lab1[1] - lab2[1]) * (lab1[1] - lab2[1])
    + (lab1[2] - lab2[2]) * (lab1[2] - lab2[2])
    + (lab1[3] - lab2[3]) * (lab1[3] - lab2[3])

\* ---------------------------------------------------- colour classification
GRAY_THRESHOLD == 1500

\* "chroma < threshold", False under "except (ValueError, TypeError)".
ChromaBelowThreshold(lab) ==
    IF lab.raised # "" THEN FALSE
    ELSE lab.val[2] * lab.val[2] + lab.val[3] * lab.val[3]
         < GRAY_THRESHOLD * GRAY_THRESHOLD

\* is_grayscale(hex_color) with the default threshold 15.0.
is_grayscale(hex_color) == ChromaBelowThreshold(hex_to_lab(hex_color))

LIGHTNESS_DEFAULT == 5000

\* "return L", 50.0 under "except (ValueError, TypeError)".
LightnessOf(lab) == IF lab.raised # "" THEN LIGHTNESS_DEFAULT ELSE lab.val[1]

\* color_lightness(hex_color)
color_lightness(hex_color) == LightnessOf(hex_to_lab(hex_color))

\* --------------------------------------------------------- normalize_color
RECURSIVE SkipSpace(_, _)
\* \s* from position i: the position after the whitespace.
SkipSpace(s, i) ==
    IF i <= Len(s) /\ Char(s, i) \in WHITESPACE THEN SkipSpace(s, i + 1) ELSE i

RECURSIVE SkipDigits(_, _)
\* \d* from position i: the position after the digits.
SkipDigits(s, i) ==
    IF i <= Len(s) /\ IsDecDigit(Char(s, i)) THEN SkipDigits(s, i + 1) ELSE i

RECURSIVE DecValue(_, _)
\* int(digits)
DecValue(d, acc) ==
    IF d = "" THEN acc ELSE DecValue(Tail(d), 10 * acc + HexValue(Char(d, 1)))

\* One "\s*(\d+)\s*" group of _RGB_FUNC_PATTERN from position i, then the literal
\* `close`: [ok, val, next].
RgbGroup(s, i, close) ==
    LET a == SkipSpace(s, i)
        b == SkipDigits(s, a)
        c == SkipSpace(s, b)
    IN  IF b > a /\ c <= Len(s) /\ Char(s, c) = close
        THEN [ok |-> TRUE, val |-> DecValue(SubSeq(s, a, b - 1), 0), next |-> c + 1]
        ELSE [ok |-> FALSE, val |-> 0, next |-> i]

RgbNoMatch == [ok |-> FALSE, val |-> <<>>]

RgbMatched(r, g, b) ==
    IF b.ok THEN [ok |-> TRUE, val |-> <<r.val, g.val, b.val>>] ELSE RgbNoMatch

RgbAfterGreen(s, r, g) ==
    IF g.ok THEN RgbMatched(r, g, RgbGroup(s, g.next, ")")) ELSE RgbNoMatch

RgbAfterRed(s, r) ==
    IF r.ok THEN RgbAfterGreen(s, r, RgbGroup(s, r.next, ",")) ELSE RgbNoMatch

\* _RGB_FUNC_PATTERN.match(s): anchored at the start only, so text may follow the
\* closing parenthesis.
RgbFuncMatch(s) ==
    IF StartsWith(s, "rgb(") THEN RgbAfterRed(s, RgbGroup(s, 5, ",")) ELSE RgbNoMatch

NO_COLOR == {"none", "transparent", "inherit", "currentcolor"}

\* The hex branch after lstrip("#") and the shorthand expansion: "int(h, 16)" guards
\* the return of f"#{h}".
NormalizeHex(h) == IF Len(h) = 6 /\ PyInt16(h).ok THEN "#" \o h ELSE None

\* The rgb() branch on the match m, and the url( branch after it.
NormalizeFunc(color_str, m) ==
    IF m.ok /\ \A i \in 1..3 : 0 <= m.val[i] /\ m.val[i] <= 255
    THEN rgb_to_hex(m.val[1], m.val[2], m.val[3])
    ELSE IF StartsWith(color_str, "url(") THEN None
    ELSE None

\* normalize_color after "color_str = color_str.strip().lower()"
NormalizeLowered(color_str) ==
    IF color_str = "" \/ color_str \in NO_COLOR THEN None
    ELSE IF color_str \in DOMAIN NAMED_COLORS THEN NAMED_COLORS[color_str]
    ELSE IF StartsWith(color_str, "#")
         THEN NormalizeHex(ExpandShorthand(LStripHash(color_str)))
    ELSE NormalizeFunc(color_str, RgbFuncMatch(color_str))

normalize_color(raw) == NormalizeLowered(Lower(Strip(raw)))

\* --------------------------------------------------------- auto_map_colors
\* best_dist = float("inf"): above every distance of the model.
FLOAT_INF == 2147483647

\* "palette_labs.append((p, hex_to_lab(p)))", skipped under "except ValueError".
LabEntry(p, lab) == IF lab.raised # "" THEN <<>> ELSE <<<<p, lab.val>>>>

\* palette_labs: the (p, hex_to_lab(p)) pairs of the palette entries that parse.
RECURSIVE PaletteLabs(_)
PaletteLabs(pal) ==
    IF pal = <<>> THEN <<>>
    ELSE LabEntry(Head(pal), hex_to_lab(Head(pal))) \o PaletteLabs(Tail(pal))

\* One pass of "for p_hex, p_lab in palette_labs" keeping the first entry of least
\* distance, the entries in `skip` passed over; best is [dist, match].
RECURSIVE ClosestLoop(_, _, _, _)
ClosestLoop(labs, src_lab, skip, best) ==
    IF labs = <<>> THEN best
    ELSE LET p_hex == Head(labs)[1]
             dist == delta_e(src_lab, Head(labs)[2])
         IN  IF p_hex \in skip THEN ClosestLoop(Tail(labs), src_lab, skip, best)
             ELSE IF dist < best.dist
                  THEN ClosestLoop(Tail(labs), src_lab, skip,
                                   [dist |-> dist, match |-> p_hex])
             ELSE ClosestLoop(Tail(labs), src_lab, skip, best)

\* ReuseFallback without the reuse: nothing is taken once the palette is exhausted.
ReuseFallback_NoReuse(labs, src_lab, unused) == unused.match

\* "if best_match is None": the search over the unused entries found nothing, and
\* the closest entry overall is taken.
ReuseFallback(labs, src_lab, unused) ==
    IF unused.match = None
    THEN ClosestLoop(labs, src_lab, {}, unused).match
    ELSE unused.match

\* BestMatch without the used set: the closest entry overall, always.
BestMatch_IgnoringUsed(labs, src_lab, used) ==
    ClosestLoop(labs, src_lab, {}, [dist |-> FLOAT_INF, match |-> None]).match

\* best_match of one found colour: the closest unused palette entry, or the fallback.
BestMatch(labs, src_lab, used) ==
    ReuseFallback(labs, src_lab,
                  ClosestLoop(labs, src_lab, used, [dist |-> FLOAT_INF, match |-> None]))

\* RecordsMapping without the test against src_color.
RecordsMapping_NoSelfTest(best_match, src_color) == best_match # None /\ best_match # ""

\* "if best_match and best_match != src_color"
RecordsMapping(best_match, src_color) ==
    best_match # None /\ best_match # "" /\ best_match # src_color

\* A Python dict is the sequence of its (key, value) pairs in insertion order.
DictKeys(d) == {d[k][1] : k \in 1..Len(d)}

DictGet(d, key) == d[CHOOSE k \in 1..Len(d) : d[k][1] = key][2]

\* d[key] = value: a present key keeps its place.
DictSet(d, key, value) ==
    IF key \in DictKeys(d)
    THEN [k \in 1..Len(d) |-> IF d[k][1] = key THEN <<key, value>> ELSE d[k]]
    ELSE Append(d, <<key, value>>)

\* best_match of a found colour whose hex_to_lab gave src: None for a colour that
\* does not parse ("except ValueError: continue").
MatchFor(labs, src, used) ==
    IF src.raised # "" THEN None ELSE BestMatch(labs, src.val, used)

\* The end of the loop body on the loop's state [color_map, used_palette, best_match].
RecordMatch(st, src_color, best) ==
    IF RecordsMapping(best, src_color)
    THEN [color_map |-> DictSet(st.color_map, src_color, best),
          used_palette |-> st.used_palette \cup {best},
          best_match |-> best]
    ELSE [st EXCEPT !.best_match = best]

\* The body of "for src_color, _count in found_colors".
MapIteration(st, labs, src_color) ==
    RecordMatch(st, src_color, MatchFor(labs, hex_to_lab(src_color), st.used_palette))

RECURSIVE MapLoop(_, _, _)
MapLoop(st, labs, found) ==
    IF found = <<>> THEN st
    ELSE MapLoop(MapIteration(st, labs, Head(found)[1]), labs, Tail(found))

\* auto_map_colors(found_colors, palette): the returned dict.
auto_map_colors(found, pal) ==
    IF found = <<>> \/ pal = <<>> THEN <<>>
    ELSE MapLoop([color_map |-> <<>>, used_palette |-> {}, best_match |-> None],
                 PaletteLabs(pal), found).color_map

\* ---------------------------------------------------------- extract_colors
\* A document is the sequence of its nodes in document order, the order of
\* svg_root.iter(): an element [kind |-> "element", style, fill, stroke], an absent
\* attribute being "" as elem.get(name, "") gives it, or a comment
\* [kind |-> "comment", text].

RECURSIVE ValueEnd(_, _)
\* "[^;]+" from position i: the position after the value.
ValueEnd(s, i) == IF i <= Len(s) /\ Char(s, i) # ";" THEN ValueEnd(s, i + 1) ELSE i

\* "\s*([^;]+)" from position v, r the position after the whitespace: the group, ""
\* for no match.  With nothing but whitespace before the ';' the group is the last
\* whitespace character, which the backtracking \s* gives up.
CaptureAfterSpace(s, v, r) ==
    IF r <= Len(s) /\ Char(s, r) # ";" THEN SubSeq(s, r, ValueEnd(s, r) - 1)
    ELSE IF r > v THEN Char(s, r - 1)
    ELSE ""

\* ":\s*([^;]+)" with the colon expected at position q.
CaptureAfterColon(s, q) ==
    IF q <= Len(s) /\ Char(s, q) = ":"
    THEN CaptureAfterSpace(s, q + 1, SkipSpace(s, q + 1))
    ELSE ""

\* The pattern rf"{prop}\s*:\s*([^;]+)" matched at position p.
StyleMatchAt(s, prop, p) ==
    IF SubSeq(s, p, p + Len(prop) - 1) = prop
    THEN CaptureAfterColon(s, SkipSpace(s, p + Len(prop)))
    ELSE ""

\* re.search(rf"{prop}\s*:\s*([^;]+)", style) from position p on: group 1 of the
\* first match, "" for no match.
RECURSIVE StyleSearch(_, _, _)
StyleSearch(s, prop, p) ==
    IF p + Len(prop) > Len(s) + 1 THEN ""
    ELSE IF StyleMatchAt(s, prop, p) # "" THEN StyleMatchAt(s, prop, p)
    ELSE StyleSearch(s, prop, p + 1)

\* SiteValues where a style declaration hides the attribute of the same name.
SiteValues_StyleHidesAttribute(node) ==
    <<StyleSearch(node.style, "fill", 1), StyleSearch(node.style, "stroke", 1),
      IF StyleSearch(node.style, "fill", 1) # "" THEN "" ELSE node.fill,
      IF StyleSearch(node.style, "stroke", 1) # "" THEN "" ELSE node.stroke>>

\* The raw values of the four occurrence sites of an element, in the order the code
\* reads them: style fill, style stroke, attribute fill, attribute stroke ("" for a
\* site that is not there).
SiteValues(node) ==
    <<StyleSearch(node.style, "fill", 1), StyleSearch(node.style, "stroke", 1),
      node.fill, node.stroke>>

\* A Counter is a dict: the (key, count) pairs in first insertion order.
CounterGet(counter, key) == IF key \in DictKeys(counter) THEN DictGet(counter, key) ELSE 0

\* "color_counter[normalized] += 1"
CounterAdd(counter, key) == DictSet(counter, key, CounterGet(counter, key) + 1)

\* "if normalized: color_counter[normalized] += 1"
CountColor(counter, normalized) ==
    IF normalized = None \/ normalized = "" THEN counter ELSE CounterAdd(counter, normalized)

RECURSIVE CountSites(_, _)
\* The sites of one element: a site that is there ("if match:", "if val:") is
\* normalised and counted.
CountSites(counter, values) ==
    IF values = <<>> THEN counter
    ELSE IF Head(values) = "" THEN CountSites(counter, Tail(values))
    ELSE CountSites(CountColor(counter, normalize_color(Head(values))), Tail(values))

RECURSIVE CountNodes(_, _)
\* "for elem in svg_root.iter()", the nodes whose tag is no string passed over.
CountNodes(counter, nodes) ==
    IF nodes = <<>> THEN counter
    ELSE IF Head(nodes).kind # "element" THEN CountNodes(counter, Tail(nodes))
    ELSE CountNodes(CountSites(counter, SiteValues(Head(nodes))), Tail(nodes))

\* extract_colors(svg_root): dict(color_counter)
extract_colors(nodes) == CountNodes(<<>>, nodes)

\* ------------------------------------------------------ extract_data_colors
IsDataColor(pair, min_occ) == ~is_grayscale(pair[1]) /\ pair[2] >= min_occ

RECURSIVE DataColors(_, _)
\* The list comprehension over all_colors.items().
DataColors(items, min_occ) ==
    IF items = <<>> THEN <<>>
    ELSE (IF IsDataColor(Head(items), min_occ) THEN <<Head(items)>> ELSE <<>>)
         \o DataColors(Tail(items), min_occ)

\* Into a list sorted by the key -count, the pair e in its stable place: after every
\* pair whose count is at least its own.
InsertAt(sorted, e, k) == SubSeq(sorted, 1, k) \o <<e>> \o SubSeq(sorted, k + 1, Len(sorted))

\* InsertByCount sorting by the key count instead of -count.
InsertByCount_Ascending(sorted, e) ==
    InsertAt(sorted, e, Cardinality({i \in 1..Len(sorted) : sorted[i][2] <= e[2]}))

InsertByCount(sorted, e) ==
    InsertAt(sorted, e, Cardinality({i \in 1..Len(sorted) : sorted[i][2] >= e[2]}))

RECURSIVE SortedByCount(_, _)
\* sorted(data_colors, key=lambda x: -x[1]): a stable sort.
SortedByCount(sorted, items) ==
    IF items = <<>> THEN sorted
    ELSE SortedByCount(InsertByCount(sorted, Head(items)), Tail(items))

extract_data_colors(nodes, min_occ) ==
    SortedByCount(<<>>, DataColors(extract_colors(nodes), min_occ))

\* ------------------------------------------------------------------- state
VARIABLES
    input,          \* the string handed to a colour function
    op,             \* the colour function called on it ("" before the call)
    result,         \* what the call returned
    found_colors,   \* auto_map_colors: the (colour, count) list passed in
    palette,        \* auto_map_colors: the palette passed in
    palette_labs,   \* auto_map_colors: the parsed palette entries
    color_map,      \* auto_map_colors: the dict being built and returned
    used_palette,   \* auto_map_colors: the palette entries marked used
    idx,            \* auto_map_colors: the position of the loop in found_colors
    assigned,       \* history: best_match of every iteration so far
    mpc,            \* auto_map_colors: "call", "loop", "done" ("idle": not called)
    doc,            \* the extractor: the nodes of the document, in document order
    min_occurrences,\* the extractor: min_occurrences of extract_data_colors
    call,           \* the extractor: the function called ("" before the call)
    ret,            \* the extractor: what the call returned
    rgb_arg,        \* the round trip: the (r, g, b) handed to rgb_to_hex
    hex_arg,        \* the round trip: the colour handed to hex_to_rgb
    rt_op,          \* the round trip: what was called ("" before the call)
    rt_result,      \* the round trip: what the call returned
    svg0,           \* the cleaner: the document tree as parsed
    svg_before,     \* the cleaner: the tree before the last call
    svg,            \* the cleaner: the tree now, mutated in place
    cl_call,        \* the cleaner: the last function called ("" before any)
    cl_ret,         \* the cleaner: what the last call returned
    cl_parts,       \* history: the counts of the three sub-operations of the last cleanup
    passes,         \* the cleaner: the cleanup passes made over the tree
    fs,             \* the batch: every input path -> whether it exists, its mtime, whether it can be processed
    out_dir_made,   \* the batch: whether the output directory exists
    out_files,      \* the batch: the names of the files written in the output directory
    manifest_file,  \* the batch: .batch_manifest.json on disk (exists: whether it is there)
    temp_files,     \* the batch: the temporary SVG files now in the temp directory
    bpc,            \* the batch: where the running call stands ("idle": no call)
    batch_fn,       \* the batch: the function called
    template_id,    \* the batch: template_id of the call
    export_format,  \* the batch: export_format of the call
    incremental,    \* the batch: options["incremental"] of the call
    files,          \* the batch: the local files, the list the loop runs over
    listed,         \* history: what list_processable_files returned to the call
    seen_mtime,     \* history: the mtimes _filter_changed_files read
    pos,            \* the batch: the position of the loop in files
    file_results,   \* the batch: file_results (file_analyses of batch_analyze)
    errors,         \* the batch: the local errors
    manifest,       \* the batch: the local manifest dict
    pending,        \* analyze_file: how the try block ended, while its finally runs
    response,       \* the batch: what the call returned
    at_call,        \* history: the output side of the disk when the call began
    runs,           \* the batch: the calls returned so far
    env_steps,      \* the steps other processes took on the input files
    user_templates, \* the template store: the user templates file, id -> template data
    tpl_id,         \* the template store: template_id of the last save_template
    template_data,  \* the template store: template_data of the last call, as the call left it
    force,          \* the template store: force of the last call
    stored_before,  \* history: the user templates file when the last call began
    tpl_response,   \* the template store: what the last call returned
    saves,          \* the template store: the save_template calls made so far
    builtin_templates,  \* the template store: templates/styles.json, id -> template data
    tpl_op,         \* the template store: the last function called ("" before any)
    deletes,        \* the template store: the delete_template calls made so far
    cleanup_matplotlib,\* process_single_file: cleanup_matplotlib of the call ("True", "False", "None")
    code_modified,  \* process_single_file: what the template code left in `modified`
    ap_doc,         \* the input file: its nodes in document order
    ap_palette,     \* the palette of the template
    ap_opts,        \* the options dict shared by the watch cycles: its "color_map" key
    ap_out,         \* the tree after the generated code ran on it
    ap_modified,    \* the counter "modified" of the generated code
    ap_pc,          \* "watch" between cycles, "generate" after the auto colour block
    ap_changed,     \* the input file changed since the last cycle
    ap_cycles,      \* how many cycles have run
    ap_computed,    \* how many times auto_map_colors was called
    template_palette, \* analyze_colors: the palette passed in, if one was
    read_mtime      \* history: the mtime each file had when process_single_file last returned for it, 0 for never

colorVars == <<input, op, result>>

mapVars == <<found_colors, palette, palette_labs, color_map, used_palette, idx,
             assigned, mpc>>

extractVars == <<doc, min_occurrences, call, ret>>

roundTripVars == <<rgb_arg, hex_arg, rt_op, rt_result>>

cleanupVars == <<svg0, svg_before, svg, cl_call, cl_ret, cl_parts, passes>>

batchVars == <<fs, out_dir_made, out_files, manifest_file, temp_files, bpc, batch_fn, template_id, export_format, incremental, files, listed, seen_mtime, pos, file_results, errors, manifest, pending, response, at_call, runs, env_steps>>

templateVars == <<user_templates, tpl_id, template_data, force, stored_before, tpl_response, saves,
                 builtin_templates, tpl_op, deletes>>

processVars == <<cleanup_matplotlib, code_modified>>

applyVars == <<ap_doc, ap_palette, ap_opts, ap_out, ap_modified, ap_pc, ap_changed, ap_cycles, ap_computed>>

analyzeVars == <<template_palette>>

readVars == <<read_mtime>>

vars == <<colorVars, mapVars, extractVars, roundTripVars, cleanupVars, batchVars, templateVars, processVars, applyVars, analyzeVars, readVars>>

SeqsUpTo(S, n) == UNION {[1..k -> S] : k \in 0..n}

\* ------------------------------------------------- inputs of the string functions
ALPHABET == {"#", "f", "F", "0", " ", "+", "g"}

RECURSIVE StringsUpTo(_)
StringsUpTo(n) ==
    IF n = 0 THEN {""}
    ELSE LET shorter == StringsUpTo(n - 1)
         IN  shorter \cup {s \o c : s \in shorter, c \in ALPHABET}

\* Two-character channel fields of a six-digit colour, well-formed and not.
CHUNKS == {"ff", "00", "0f", "+f", "-f", " f", "f_", "0x", "gg"}

ChunkInputs == {p \o a \o b \o c : p \in {"", "#"}, a \in CHUNKS, b \in CHUNKS, c \in CHUNKS}

SampleInputs ==
    {"none", " None ", "TRANSPARENT", "inherit", "currentColor", "url(#grad1)",
     "red", " Red ", "steelblue", "lightgrey", "not-a-color",
     "#FF0000", "#abc", "#2171b5", "ff0000", "#xyz", "#1234567", "##fff",
     "#+fffff", "#-fffff", "#ff_fff", "#0xffff", "#0x_fff", "#ffff_f", "#_fffff",
     "rgb(255, 0, 0)", "rgb( 1 , 2 , 3 )", "rgb(0,128,255)", "rgb(256,0,0)",
     "rgb(0,0,999)", "rgb(1,2,3)x", "rgb(1,2)", "rgb(-1,0,0)", "rgb(,,)", "RGB(10,20,30)"}

ColorInputs == StringsUpTo(MaxLen) \cup ChunkInputs \cup SampleInputs

ColorIdle ==
    /\ input = ""
    /\ op = "idle"
    /\ result = None

MapIdle ==
    /\ found_colors = <<>>
    /\ palette = <<>>
    /\ palette_labs = <<>>
    /\ color_map = <<>>
    /\ used_palette = {}
    /\ idx = 0
    /\ assigned = <<>>
    /\ mpc = "idle"

ExtractIdle ==
    /\ doc = <<>>
    /\ min_occurrences = 0
    /\ call = "idle"
    /\ ret = <<>>

RoundTripIdle ==
    /\ rgb_arg = <<0, 0, 0>>
    /\ hex_arg = ""
    /\ rt_op = "idle"
    /\ rt_result = None

CleanupIdle ==
    /\ svg0 = <<>>
    /\ svg_before = <<>>
    /\ svg = <<>>
    /\ cl_call = "idle"
    /\ cl_ret = 0
    /\ cl_parts = <<>>
    /\ passes = 0

BatchIdle ==
    /\ fs = <<>>
    /\ out_dir_made = FALSE
    /\ out_files = {}
    /\ manifest_file = [exists |-> FALSE, entries |-> <<>>]
    /\ temp_files = {}
    /\ bpc = "idle"
    /\ batch_fn = ""
    /\ template_id = ""
    /\ export_format = ""
    /\ incremental = FALSE
    /\ files = <<>>
    /\ listed = <<>>
    /\ seen_mtime = <<>>
    /\ pos = 0
    /\ file_results = <<>>
    /\ errors = <<>>
    /\ manifest = <<>>
    /\ pending = None
    /\ response = None
    /\ at_call = None
    /\ runs = 0
    /\ env_steps = 0

TemplateIdle ==
    /\ user_templates = <<>>
    /\ tpl_id = ""
    /\ template_data = None
    /\ force = FALSE
    /\ stored_before = <<>>
    /\ tpl_response = None
    /\ saves = 0
    /\ builtin_templates = <<>>
    /\ tpl_op = ""
    /\ deletes = 0

ProcessIdle ==
    /\ cleanup_matplotlib = "None"
    /\ code_modified = 0

ApplyIdle ==
    /\ ap_doc = <<>>
    /\ ap_palette = <<>>
    /\ ap_opts = [has_color_map |-> FALSE, color_map |-> <<>>]
    /\ ap_out = <<>>
    /\ ap_modified = 0
    /\ ap_pc = "watch"
    /\ ap_changed = FALSE
    /\ ap_cycles = 0
    /\ ap_computed = 0

\* template_palette is None when no palette was passed.
NoPalette == [passed |-> FALSE, entries |-> <<>>]

AnalyzeIdle ==
    /\ template_palette = NoPalette

ReadIdle ==
    /\ read_mtime = <<>>

InitColor ==
    /\ input \in ColorInputs
    /\ op = ""
    /\ result = None
    /\ MapIdle
    /\ ExtractIdle
    /\ RoundTripIdle
    /\ CleanupIdle
    /\ BatchIdle
    /\ TemplateIdle
    /\ ProcessIdle
    /\ ApplyIdle
    /\ AnalyzeIdle
    /\ ReadIdle

CallHexToRgb ==
    /\ op = ""
    /\ op' = "hex_to_rgb"
    /\ result' = hex_to_rgb(input)
    /\ UNCHANGED input

CallNormalizeColor ==
    /\ op = ""
    /\ op' = "normalize_color"
    /\ result' = normalize_color(input)
    /\ UNCHANGED input

CallIsGrayscale ==
    /\ op = ""
    /\ op' = "is_grayscale"
    /\ result' = is_grayscale(input)
    /\ UNCHANGED input

CallColorLightness ==
    /\ op = ""
    /\ op' = "color_lightness"
    /\ result' = color_lightness(input)
    /\ UNCHANGED input

NextColor ==
    /\ \/ CallHexToRgb
       \/ CallNormalizeColor
       \/ CallIsGrayscale
       \/ CallColorLightness
    /\ UNCHANGED <<mapVars, extractVars, roundTripVars, cleanupVars, batchVars, templateVars, processVars, applyVars, analyzeVars, readVars>>

SpecColor == InitColor /\ [][NextColor]_vars

\* ------------------------------------------------ the run of auto_map_colors
MaxFound == 3

MaxPalette == 2

FoundPool == {"#f00", "#00f", "#0f0", "#xyz"}

PalettePool == {"#f00", "#F00", "#00f", "#xyz", "+f+f+f"}

\* found_colors as the callers pass it: (colour, count) pairs, most frequent first.
FoundLists ==
    {[k \in 1..Len(cs) |-> <<cs[k], Len(cs) - k + 1>>] : cs \in SeqsUpTo(FoundPool, MaxFound)}

PaletteLists == SeqsUpTo(PalettePool, MaxPalette)

InitMap ==
    /\ found_colors \in FoundLists
    /\ palette \in PaletteLists
    /\ palette_labs = <<>>
    /\ color_map = <<>>
    /\ used_palette = {}
    /\ idx = 0
    /\ assigned = <<>>
    /\ mpc = "call"
    /\ ColorIdle
    /\ ExtractIdle
    /\ RoundTripIdle
    /\ CleanupIdle
    /\ BatchIdle
    /\ TemplateIdle
    /\ ProcessIdle
    /\ ApplyIdle
    /\ AnalyzeIdle
    /\ ReadIdle

\* "if not found_colors or not palette: return {}"
AutoMapEmpty ==
    /\ mpc = "call"
    /\ found_colors = <<>> \/ palette = <<>>
    /\ mpc' = "done"
    /\ UNCHANGED <<found_colors, palette, palette_labs, color_map, used_palette, idx,
                   assigned>>

\* The palette is parsed and the loop entered.
AutoMapBegin ==
    /\ mpc = "call"
    /\ found_colors # <<>> /\ palette # <<>>
    /\ palette_labs' = PaletteLabs(palette)
    /\ color_map' = <<>>
    /\ used_palette' = {}
    /\ idx' = 1
    /\ mpc' = "loop"
    /\ UNCHANGED <<found_colors, palette, assigned>>

\* One iteration of the loop over found_colors.
AutoMapStep ==
    /\ mpc = "loop"
    /\ idx <= Len(found_colors)
    /\ LET st == MapIteration([color_map |-> color_map, used_palette |-> used_palette,
                               best_match |-> None],
                              palette_labs, found_colors[idx][1])
       IN  /\ color_map' = st.color_map
           /\ used_palette' = st.used_palette
           /\ assigned' = Append(assigned, st.best_match)
    /\ idx' = idx + 1
    /\ UNCHANGED <<found_colors, palette, palette_labs, mpc>>

\* "return color_map"
AutoMapReturn ==
    /\ mpc = "loop"
    /\ idx > Len(found_colors)
    /\ mpc' = "done"
    /\ UNCHANGED <<found_colors, palette, palette_labs, color_map, used_palette, idx,
                   assigned>>

NextMap ==
    /\ \/ AutoMapEmpty
       \/ AutoMapBegin
       \/ AutoMapStep
       \/ AutoMapReturn
    /\ UNCHANGED <<colorVars, extractVars, roundTripVars, cleanupVars, batchVars, templateVars, processVars, applyVars, analyzeVars, readVars>>

SpecMap == InitMap /\ [][NextMap]_vars

\* ------------------------------------------ the run of the colour extractor
MaxNodes == 3

\* ----------------------------------------------------------- analyze_colors
\* analyze_colors calling extract_data_colors with min_occurrences 2.
AnalyzeDataColors_MinTwo(nodes) == extract_data_colors(nodes, 2)

\* "data_colors = extract_data_colors(svg_root)", min_occurrences at its default.
AnalyzeDataColors(nodes) == extract_data_colors(nodes, 1)

RECURSIVE GrayscaleOf(_)
\* "{c: n for c, n in all_colors.items() if is_grayscale(c)}"
GrayscaleOf(items) ==
    IF items = <<>> THEN <<>>
    ELSE (IF is_grayscale(Head(items)[1]) THEN <<Head(items)>> ELSE <<>>)
         \o GrayscaleOf(Tail(items))

\* "if template_palette:"
PalettePassed(tp) == tp.passed /\ tp.entries # <<>>

\* analyze_colors(svg_root, template_palette): the returned dict, the key
\* "suggested_mapping" being in it when has_suggested_mapping.
analyze_colors(nodes, tp) ==
    [total_unique_colors |-> Len(extract_colors(nodes)),
     all_colors |-> extract_colors(nodes),
     data_colors |-> AnalyzeDataColors(nodes),
     grayscale_colors |-> GrayscaleOf(extract_colors(nodes)),
     has_suggested_mapping |-> PalettePassed(tp),
     suggested_mapping |->
        IF PalettePassed(tp) THEN auto_map_colors(AnalyzeDataColors(nodes), tp.entries)
        ELSE <<>>]

\* The palettes analyze_colors is called with.
AnalyzePalettes ==
    {NoPalette,
     [passed |-> TRUE, entries |-> <<>>],
     [passed |-> TRUE, entries |-> <<"#ff0000">>],
     [passed |-> TRUE, entries |-> <<"#0000FF", "#xyz", "#cccccc">>]}

MaxMinOccurrences == 2

Element(style, fill, stroke) ==
    [kind |-> "element", style |-> style, fill |-> fill, stroke |-> stroke]

NodePool ==
    {Element("fill:#f00;stroke:#0f0", "red", ""),
     Element("", "#00f", "blue"),
     Element("stroke: #CCC ;fill-opacity:1", "#cccccc", "none"),
     Element("fill:url(#g);stroke:rgb(0, 0, 255)", "", "#0f0"),
     Element("fill:;stroke-width:2", "transparent", "#000"),
     Element("fill:#f00", "", ""),
     [kind |-> "comment", text |-> "fill:#f00"]}

InitExtract ==
    /\ doc = <<>>
    /\ min_occurrences = 0
    /\ call = ""
    /\ ret = <<>>
    /\ ColorIdle
    /\ MapIdle
    /\ RoundTripIdle
    /\ CleanupIdle
    /\ BatchIdle
    /\ TemplateIdle
    /\ ProcessIdle
    /\ ApplyIdle
    /\ AnalyzeIdle
    /\ ReadIdle

\* The document gets one more node.
AddNode ==
    /\ call = ""
    /\ Len(doc) < MaxNodes
    /\ \E n \in NodePool : doc' = Append(doc, n)
    /\ UNCHANGED <<min_occurrences, call, ret, template_palette>>

CallExtractColors ==
    /\ call = ""
    /\ call' = "extract_colors"
    /\ ret' = extract_colors(doc)
    /\ UNCHANGED <<doc, min_occurrences, template_palette>>

CallExtractDataColors ==
    /\ call = ""
    /\ \E m \in 1..MaxMinOccurrences :
        /\ min_occurrences' = m
        /\ ret' = extract_data_colors(doc, m)
    /\ call' = "extract_data_colors"
    /\ UNCHANGED <<doc, template_palette>>

CallAnalyzeColors ==
    /\ call = ""
    /\ \E tp \in AnalyzePalettes :
        /\ template_palette' = tp
        /\ ret' = analyze_colors(doc, tp)
    /\ call' = "analyze_colors"
    /\ UNCHANGED <<doc, min_occurrences>>

NextExtract ==
    /\ \/ AddNode
       \/ CallExtractColors
       \/ CallExtractDataColors
       \/ CallAnalyzeColors
    /\ UNCHANGED <<colorVars, mapVars, roundTripVars, cleanupVars, batchVars, templateVars, processVars, applyVars, readVars>>

SpecExtract == InitExtract /\ [][NextExtract]_vars

\* ------------------------------------------------ the hex / RGB round trip
\* "rgb_to_hex(*hex_to_rgb(c))": the ValueError of hex_to_rgb passes through.
RgbToHexOf(rgb) ==
    IF rgb.raised # "" THEN rgb ELSE rgb_to_hex(rgb.val[1], rgb.val[2], rgb.val[3])

\* The channel values: all of them.
CHANNELS == 0..255

\* The channel values the other two channels take while one runs over all.
SOME_CHANNELS == {0, 9, 176, 255}

\* The two-digit lowercase fields of a canonical colour: all of them.
HEX_FIELDS == {Char(HEXDIGITS, i) \o Char(HEXDIGITS, j) : i, j \in 1..16}

SOME_HEX_FIELDS == {"00", "0a", "c7", "ff"}

\* (r, g, b) with one channel running over all values.
RgbTriples ==
    {<<r, g, b>> : r \in CHANNELS, g \in SOME_CHANNELS, b \in SOME_CHANNELS}
    \cup {<<r, g, b>> : r \in SOME_CHANNELS, g \in CHANNELS, b \in SOME_CHANNELS}
    \cup {<<r, g, b>> : r \in SOME_CHANNELS, g \in SOME_CHANNELS, b \in CHANNELS}

\* Canonical colours with one field running over all values.
CanonicalColors ==
    {"#" \o r \o g \o b : r \in HEX_FIELDS, g \in SOME_HEX_FIELDS, b \in SOME_HEX_FIELDS}
    \cup {"#" \o r \o g \o b : r \in SOME_HEX_FIELDS, g \in HEX_FIELDS, b \in SOME_HEX_FIELDS}
    \cup {"#" \o r \o g \o b : r \in SOME_HEX_FIELDS, g \in SOME_HEX_FIELDS, b \in HEX_FIELDS}

InitRoundTrip ==
    /\ \/ rgb_arg \in RgbTriples /\ hex_arg = "" /\ rt_op = "rgb"
       \/ hex_arg \in CanonicalColors /\ rgb_arg = <<0, 0, 0>> /\ rt_op = "hex"
    /\ rt_result = None
    /\ ColorIdle
    /\ MapIdle
    /\ ExtractIdle
    /\ CleanupIdle
    /\ BatchIdle
    /\ TemplateIdle
    /\ ProcessIdle
    /\ ApplyIdle
    /\ AnalyzeIdle
    /\ ReadIdle

CallRgbToHex ==
    /\ rt_op = "rgb"
    /\ rt_op' = "rgb_to_hex"
    /\ rt_result' = rgb_to_hex(rgb_arg[1], rgb_arg[2], rgb_arg[3])
    /\ UNCHANGED <<rgb_arg, hex_arg>>

CallRoundTrip ==
    /\ rt_op = "hex"
    /\ rt_op' = "round_trip"
    /\ rt_result' = RgbToHexOf(hex_to_rgb(hex_arg))
    /\ UNCHANGED <<rgb_arg, hex_arg>>

NextRoundTrip ==
    /\ \/ CallRgbToHex
       \/ CallRoundTrip
    /\ UNCHANGED <<colorVars, mapVars, extractVars, cleanupVars, batchVars, templateVars, processVars, applyVars, analyzeVars, readVars>>

SpecRoundTrip == InitRoundTrip /\ [][NextRoundTrip]_vars

\* --------------------------------- the plotting-library detector and cleaner
\* The detector and the cleaner (matplotlib_utils) are modelled from their
\* specification, sections 4.5 and 4.6, and from the tests that call them.
\*
\* A document tree is [root, nodes]: the width, height and viewBox of the root
\* element ("" for an absent attribute) and the nodes below it in document order.  A
\* node is an element or a comment; depth is its depth below the root; style is the
\* list of the (property, value) declarations of its style attribute; rules are the
\* (property, value) declarations of the global selector rule of a style block.
Node(kind, tag, depth, id, style, fill, width, height, text, rules) ==
    [kind |-> kind, tag |-> tag, depth |-> depth, id |-> id, style |-> style,
     fill |-> fill, width |-> width, height |-> height, text |-> text, rules |-> rules]

Rect(id, style, fill, width, height) ==
    Node("element", "rect", 1, id, style, fill, width, height, "", <<>>)

Text(depth, style) == Node("element", "text", depth, "", style, "", "", "", "", <<>>)

StyleBlock(rules) == Node("element", "style", 2, "", <<>>, "", "", "", "", rules)

Creator(text) == Node("element", "creator", 3, "", <<>>, "", "", "", text, <<>>)

Comment(depth, text) == Node("comment", "", depth, "", <<>>, "", "", "", text, <<>>)

\* The name marker of the plotting library.
LIBRARY_MARKER == "matplotlib"

\* The prefixes of the ids the library gives its elements.
LIBRARY_ID_PREFIXES == {"figure_", "axes_", "patch_"}

\* The default font family of the library.
LIBRARY_FONT == "DejaVu Sans"

\* FONT_STACK with the library font kept at its head.
FONT_STACK_KeepingLibraryFont == "DejaVu Sans, Arial, Helvetica, sans-serif"

\* The portable font stack that replaces the library font.
FONT_STACK == "Arial, Helvetica, sans-serif"

\* "sub in s"
Contains(s, sub) ==
    \E i \in 1..(Len(s) - Len(sub) + 1) : SubSeq(s, i, i + Len(sub) - 1) = sub

EndsWith(s, suffix) ==
    Len(s) >= Len(suffix) /\ SubSeq(s, Len(s) - Len(suffix) + 1, Len(s)) = suffix

\* ------------------------------------------------------------ the detector
\* (a) a creator / generator metadata field whose text contains the library name.
HasCreatorSignature(n) ==
    n.kind = "element" /\ n.tag = "creator" /\ Contains(n.text, LIBRARY_MARKER)

\* (b) an element id of the library's naming convention.
HasIdSignature(n) ==
    n.kind = "element" /\ \E p \in LIBRARY_ID_PREFIXES : StartsWith(n.id, p)

\* HasCommentSignature looking at the top-level comments only.
HasCommentSignature_TopLevelOnly(n) ==
    n.kind = "comment" /\ n.depth = 1 /\ Contains(n.text, LIBRARY_MARKER)

\* (c) a comment, anywhere in the subtree, that contains the library name.
HasCommentSignature(n) ==
    n.kind = "comment" /\ Contains(n.text, LIBRARY_MARKER)

is_matplotlib_svg(tree) ==
    \E k \in 1..Len(tree.nodes) :
        \/ HasCreatorSignature(tree.nodes[k])
        \/ HasIdSignature(tree.nodes[k])
        \/ HasCommentSignature(tree.nodes[k])

\* ------------------------------------------------------- dimension parsing
\* Lengths are kept in thousandths.
AllDecDigits(s) == \A i \in 1..Len(s) : IsDecDigit(Char(s, i))

RECURSIVE DigitsNumber(_, _)
DigitsNumber(d, acc) ==
    IF d = "" THEN acc ELSE DigitsNumber(Tail(d), acc * 10 + HexValue(Head(d)))

\* The fraction digits as thousandths.
FractionThousandths(f) == DigitsNumber(SubSeq(f \o "000", 1, 3), 0)

\* The position of the decimal point, 0 if there is none.
RECURSIVE PointAt(_, _)
PointAt(s, i) ==
    IF i > Len(s) THEN 0 ELSE IF Char(s, i) = "." THEN i ELSE PointAt(s, i + 1)

\* A number with a decimal point at position p.
NumberWithPoint(s, p) ==
    IF /\ p > 1 /\ p < Len(s)
       /\ AllDecDigits(SubSeq(s, 1, p - 1)) /\ AllDecDigits(SubSeq(s, p + 1, Len(s)))
    THEN DigitsNumber(SubSeq(s, 1, p - 1), 0) * 1000
         + FractionThousandths(SubSeq(s, p + 1, Len(s)))
    ELSE 0

\* The number a string writes; 0 for a string that writes none.
NumberOr0(s, p) ==
    IF p > 0 THEN NumberWithPoint(s, p)
    ELSE IF s # "" /\ AllDecDigits(s) THEN DigitsNumber(s, 0) * 1000
    ELSE 0

\* The unit suffixes px and mm are dropped.
StripUnit(s) ==
    IF EndsWith(s, "px") \/ EndsWith(s, "mm") THEN SubSeq(s, 1, Len(s) - 2) ELSE s

ParseStripped(s) == NumberOr0(s, PointAt(s, 1))

\* parse_dimension: tolerant of the suffixes px and mm, 0 on a parse failure.
parse_dimension(s) == ParseStripped(Strip(StripUnit(Strip(s))))

\* The whitespace-separated fields of a viewBox.
RECURSIVE FieldEnd(_, _)
FieldEnd(s, i) == IF i <= Len(s) /\ Char(s, i) # " " THEN FieldEnd(s, i + 1) ELSE i

RECURSIVE Fields(_, _)
Fields(s, i) ==
    IF i > Len(s) THEN <<>>
    ELSE IF Char(s, i) = " " THEN Fields(s, i + 1)
    ELSE <<SubSeq(s, i, FieldEnd(s, i) - 1)>> \o Fields(s, FieldEnd(s, i))

ViewBoxDimension(fields, k) == IF Len(fields) = 4 THEN parse_dimension(fields[k]) ELSE 0

\* The canvas size: the root's width / height when present, else its viewBox.
CanvasWidth(root) ==
    IF root.width # "" THEN parse_dimension(root.width)
    ELSE ViewBoxDimension(Fields(root.viewBox, 1), 3)

CanvasHeight(root) ==
    IF root.height # "" THEN parse_dimension(root.height)
    ELSE ViewBoxDimension(Fields(root.viewBox, 1), 4)

\* ------------------------------------------------ background rect removal
\* The value a style declares for a property, "" if it declares none.
RECURSIVE StyleGet(_, _)
StyleGet(style, prop) ==
    IF style = <<>> THEN ""
    ELSE IF Head(style)[1] = prop THEN Head(style)[2]
    ELSE StyleGet(Tail(style), prop)

\* The resolved fill of an element: the fill of its style, else its fill attribute.
ResolvedFill(n) ==
    IF StyleGet(n.style, "fill") # "" THEN StyleGet(n.style, "fill") ELSE n.fill

IsWhite(value) == normalize_color(value) = "#ffffff"

\* IsBackgroundRect with one of the two size tests enough.
IsBackgroundRect_EitherSide(n, cw, ch) ==
    /\ n.kind = "element" /\ n.tag = "rect"
    /\ IsWhite(ResolvedFill(n))
    /\ parse_dimension(n.width) >= cw \/ parse_dimension(n.height) >= ch

\* A rect of white resolved fill that covers the canvas in width and in height.
IsBackgroundRect(n, cw, ch) ==
    /\ n.kind = "element" /\ n.tag = "rect"
    /\ IsWhite(ResolvedFill(n))
    /\ parse_dimension(n.width) >= cw
    /\ parse_dimension(n.height) >= ch

RECURSIVE WithoutBackgroundRects(_, _, _)
WithoutBackgroundRects(nodes, cw, ch) ==
    IF nodes = <<>> THEN <<>>
    ELSE (IF IsBackgroundRect(Head(nodes), cw, ch) THEN <<>> ELSE <<Head(nodes)>>)
         \o WithoutBackgroundRects(Tail(nodes), cw, ch)

\* A sub-operation returns the tree it leaves and its count of modifications.
Removed(tree, nodes) ==
    [tree |-> [root |-> tree.root, nodes |-> nodes], count |-> Len(tree.nodes) - Len(nodes)]

remove_background_rects(tree) ==
    Removed(tree, WithoutBackgroundRects(tree.nodes, CanvasWidth(tree.root),
                                         CanvasHeight(tree.root)))

\* ----------------------------------------------------- style-block removal
IsStyleBlock(n) == n.kind = "element" /\ n.tag = "style"

\* The elements a global selector rule matches: the graphic elements.
MatchesGlobalRule(n) == n.kind = "element" /\ n.tag \in {"rect", "text", "g", "circle", "path"}

\* A declaration is inlined unless the element declares the property itself.
RECURSIVE Inlined(_, _)
Inlined(style, rules) ==
    IF rules = <<>> THEN style
    ELSE IF StyleGet(style, Head(rules)[1]) # "" THEN Inlined(style, Tail(rules))
    ELSE Inlined(Append(style, Head(rules)), Tail(rules))

InlineOnto(n, rules) ==
    IF MatchesGlobalRule(n) THEN [n EXCEPT !.style = Inlined(n.style, rules)] ELSE n

\* The rules of one style block inlined onto every matching element.
InlineRules(nodes, rules) == [k \in 1..Len(nodes) |-> InlineOnto(nodes[k], rules)]

RECURSIVE InlineAllBlocks(_, _)
\* The blocks in document order, each inlined onto the nodes.
InlineAllBlocks(nodes, blocks) ==
    IF blocks = <<>> THEN nodes
    ELSE InlineAllBlocks(InlineRules(nodes, Head(blocks).rules), Tail(blocks))

RECURSIVE WithoutStyleBlocks(_)
WithoutStyleBlocks(nodes) ==
    IF nodes = <<>> THEN <<>>
    ELSE (IF IsStyleBlock(Head(nodes)) THEN <<>> ELSE <<Head(nodes)>>)
         \o WithoutStyleBlocks(Tail(nodes))

\* The rules of every style block are inlined, then the blocks removed: one
\* modification for a block.
remove_redundant_styles(tree) ==
    Removed(tree, WithoutStyleBlocks(InlineAllBlocks(tree.nodes,
                                                     SelectSeq(tree.nodes, IsStyleBlock))))

\* ------------------------------------------------------ font normalization
HasLibraryFont(n) ==
    n.kind = "element" /\ Contains(StyleGet(n.style, "font-family"), LIBRARY_FONT)

RECURSIVE WithFontFamily(_, _)
WithFontFamily(style, value) ==
    IF style = <<>> THEN <<>>
    ELSE <<IF Head(style)[1] = "font-family" THEN <<"font-family", value>> ELSE Head(style)>>
         \o WithFontFamily(Tail(style), value)

NormalizeFont(n) ==
    IF HasLibraryFont(n) THEN [n EXCEPT !.style = WithFontFamily(n.style, FONT_STACK)] ELSE n

\* One modification for an element whose font-family was rewritten.
normalize_matplotlib_fonts(tree) ==
    [tree |-> [root |-> tree.root,
               nodes |-> [k \in 1..Len(tree.nodes) |-> NormalizeFont(tree.nodes[k])]],
     count |-> Cardinality({k \in 1..Len(tree.nodes) : HasLibraryFont(tree.nodes[k])})]

\* ------------------------------------------------------------- the cleaner
\* The third sub-operation, after the first two: the tree and the three counts.
CleanupFonts(bg, st, fonts) ==
    [tree |-> fonts.tree, parts |-> <<bg.count, st.count, fonts.count>>,
     count |-> bg.count + st.count + fonts.count]

CleanupStyles(bg, st) == CleanupFonts(bg, st, normalize_matplotlib_fonts(st.tree))

CleanupRects(bg) == CleanupStyles(bg, remove_redundant_styles(bg.tree))

\* The cleaner with the fonts normalized before the style blocks are inlined.
cleanup_matplotlib_svg_FontsBeforeStyles(tree) ==
    LET bg == remove_background_rects(tree)
        fonts == normalize_matplotlib_fonts(bg.tree)
        st == remove_redundant_styles(fonts.tree)
    IN  [tree |-> st.tree, parts |-> <<bg.count, st.count, fonts.count>>,
         count |-> bg.count + st.count + fonts.count]

\* cleanup: background rect removal, style-block removal, font normalization, in
\* this order, the counts summed.
cleanup_matplotlib_svg(tree) == CleanupRects(remove_background_rects(tree))

\* ------------------------------------- the run of the detector and cleaner
MaxTreeNodes == 3

MaxPasses == 2

RootPool ==
    {[width |-> "640", height |-> "480", viewBox |-> "0 0 640 480"],
     [width |-> "", height |-> "", viewBox |-> "0 0 640 480"],
     [width |-> "abc", height |-> "480px", viewBox |-> ""]}

TreeNodePool ==
    {Rect("figure_1", <<>>, "#ffffff", "640", "480"),
     Rect("", <<<<"fill", "white">>>>, "", "640px", "500.5"),
     Rect("", <<>>, "#FFF", "50", "abc"),
     Rect("bar", <<>>, "blue", "640", "480"),
     Rect("", <<<<"stroke", "#000">>>>, "", "640", "480"),
     StyleBlock(<<<<"stroke-linecap", "butt">>, <<"font-family", "DejaVu Sans">>>>),
     StyleBlock(<<<<"fill", "#ffffff">>>>),
     Text(2, <<<<"font-family", "DejaVu Sans, sans-serif">>, <<"font-size", "14px">>>>),
     Text(1, <<<<"font-family", "Arial">>>>),
     Comment(2, " Created with matplotlib (version 3.8) "),
     Creator("matplotlib version 3.8.2")}

Trees == {[root |-> r, nodes |-> ns] : r \in RootPool, ns \in SeqsUpTo(TreeNodePool, MaxTreeNodes)}

InitCleanup ==
    /\ svg0 \in Trees
    /\ svg = svg0
    /\ svg_before = svg0
    /\ cl_call = ""
    /\ cl_ret = 0
    /\ cl_parts = <<>>
    /\ passes = 0
    /\ ColorIdle
    /\ MapIdle
    /\ ExtractIdle
    /\ RoundTripIdle
    /\ BatchIdle
    /\ TemplateIdle
    /\ ProcessIdle
    /\ ApplyIdle
    /\ AnalyzeIdle
    /\ ReadIdle

CallIsMatplotlibSvg ==
    /\ cl_call = ""
    /\ cl_call' = "is_matplotlib_svg"
    /\ cl_ret' = is_matplotlib_svg(svg)
    /\ UNCHANGED <<svg0, svg_before, svg, cl_parts, passes, processVars>>

CallRemoveBackgroundRects ==
    /\ cl_call = ""
    /\ cl_call' = "remove_background_rects"
    /\ svg' = remove_background_rects(svg).tree
    /\ cl_ret' = remove_background_rects(svg).count
    /\ svg_before' = svg
    /\ UNCHANGED <<svg0, cl_parts, passes, processVars>>

\* A cleanup pass over the tree: the first, or one more over the cleaned tree.
CallCleanup ==
    /\ cl_call \in {"", "cleanup_matplotlib_svg"}
    /\ passes < MaxPasses
    /\ cl_call' = "cleanup_matplotlib_svg"
    /\ svg' = cleanup_matplotlib_svg(svg).tree
    /\ cl_ret' = cleanup_matplotlib_svg(svg).count
    /\ cl_parts' = cleanup_matplotlib_svg(svg).parts
    /\ svg_before' = svg
    /\ passes' = passes + 1
    /\ UNCHANGED <<svg0, processVars>>

\* process_single_file taking any value but True as auto-detect
RunsCleanup_FalseAsNone(cm, tree) ==
    cm = "True" \/ is_matplotlib_svg(tree)

\* process_single_file, lines 449-451: whether the cleanup runs
RunsCleanup(cm, tree) ==
    cm = "True" \/ (cm = "None" /\ is_matplotlib_svg(tree))

\* the values the template code may leave in `modified` (0 also when it leaves none)
SOME_MODIFIED == {0, 2}

\* process_single_file, lines 445-464 and 485-492, on a parsed document with
\* template code that sets `modified` and leaves the tree alone
CallProcessSingleFile(cm, modified) ==
    /\ cl_call = ""
    /\ cl_call' = "process_single_file"
    /\ cleanup_matplotlib' = cm
    /\ code_modified' = modified
    /\ svg' = IF RunsCleanup(cm, svg) THEN cleanup_matplotlib_svg(svg).tree ELSE svg
    /\ cl_ret' = [matplotlib_detected |-> RunsCleanup(cm, svg),
                  modifications |->
                      (IF RunsCleanup(cm, svg) THEN cleanup_matplotlib_svg(svg).count
                       ELSE 0) + modified]
    /\ svg_before' = svg
    /\ UNCHANGED <<svg0, cl_parts, passes>>

NextCleanup ==
    /\ \/ CallIsMatplotlibSvg
       \/ CallRemoveBackgroundRects
       \/ CallCleanup
       \/ \E cm \in {"True", "False", "None"}, modified \in SOME_MODIFIED :
                CallProcessSingleFile(cm, modified)
    /\ UNCHANGED <<colorVars, mapVars, extractVars, roundTripVars, batchVars, templateVars, applyVars, analyzeVars, readVars>>

SpecCleanup == InitCleanup /\ [][NextCleanup]_vars

\* ------------------------------------------------------------ the batch processor
\* batch_operations.py over a directory of input files. The disk is part of the
\* state: other processes may touch or remove an input file between any two
\* steps of a running call.

SVG_EXTENSIONS == {".svg"}

PDF_EXTENSIONS == {".pdf"}

PROCESSABLE_EXTENSIONS == SVG_EXTENSIONS \cup PDF_EXTENSIONS

\* the ids load_templates() returns, and the ids a caller may pass
TEMPLATE_IDS == {"nature"}

SOME_TEMPLATE_IDS == {"nature", "nonexistent_template"}

EXPORT_FORMATS == {"svg", "pdf"}

\* the input directory and its entries, as sorted(os.listdir(path)) yields them
INPUT_DIR == "figs"

SORTED_ENTRIES == <<"a.PDF", "a.svg", "notes.txt">>

FullPath(entry) == INPUT_DIR \o "/" \o entry

PATHS == {FullPath(SORTED_ENTRIES[i]) : i \in DOMAIN SORTED_ENTRIES}

\* the entries other processes write to while a batch runs
FIGURE_PATHS == {FullPath("a.PDF"), FullPath("a.svg")}

RECURSIVE LastIndexOf(_, _, _)
LastIndexOf(s, c, i) ==
    IF i = 0 THEN 0
    ELSE IF SubSeq(s, i, i) = c THEN i
    ELSE LastIndexOf(s, c, i - 1)

\* os.path.basename
Basename(path) == SubSeq(path, LastIndexOf(path, "/", Len(path)) + 1, Len(path))

\* os.path.splitext of a base name: the extension starts at the last dot, unless
\* that dot leads the name
SplitextAt(name, dot) ==
    IF dot <= 1 THEN <<name, "">>
    ELSE <<SubSeq(name, 1, dot - 1), SubSeq(name, dot, Len(name))>>

Splitext(name) == SplitextAt(name, LastIndexOf(name, ".", Len(name)))

Stem(path) == Splitext(Basename(path))[1]

Ext(path) == Lower(Splitext(Basename(path))[2])

is_processable(path) == Ext(path) \in PROCESSABLE_EXTENSIONS

RECURSIVE ListFrom(_, _)
ListFrom(disk, entries) ==
    IF entries = <<>> THEN <<>>
    ELSE IF disk[FullPath(Head(entries))].exists /\ is_processable(FullPath(Head(entries)))
         THEN <<FullPath(Head(entries))>> \o ListFrom(disk, Tail(entries))
         ELSE ListFrom(disk, Tail(entries))

list_processable_files(disk) == ListFrom(disk, SORTED_ENTRIES)

\* the manifest maps a path to the mtime recorded for it; the hash and the time of
\* processing are written with it and never read
load_manifest(on_disk) == IF on_disk.exists THEN on_disk.entries ELSE <<>>

\* _save_manifest: the file it leaves in the output directory
SavedManifest(man) == [exists |-> TRUE, entries |-> man]

\* _filter_changed_files without the mtime comparison
IsChanged_MissingOnly(disk, man, path) == path \notin DOMAIN man

IsChanged(disk, man, path) ==
    \/ path \notin DOMAIN man
    \/ ~disk[path].exists
    \/ disk[path].mtime # man[path]

RECURSIVE filter_changed_files(_, _, _)
filter_changed_files(disk, fl, man) ==
    IF fl = <<>> THEN <<>>
    ELSE IF IsChanged(disk, man, Head(fl))
         THEN <<Head(fl)>> \o filter_changed_files(disk, Tail(fl), man)
         ELSE filter_changed_files(disk, Tail(fl), man)

WithEntry(man, path, mtime) ==
    [p \in DOMAIN man \cup {path} |-> IF p = path THEN mtime ELSE man[p]]

\* process_single_file: the name of the file it writes in the output directory
OutName(path, fmt) == Stem(path) \o "." \o fmt

\* analyze_file: the temporary SVG a PDF is converted to
AnalyzeTemp(path) == "analyze_" \o Stem(path) \o "_pid.svg"

OkResult(path, fmt) ==
    [input |-> Basename(path), status |-> "ok", output |-> OutName(path, fmt)]

ErrorEntry(path) ==
    [input |-> Basename(path), status |-> "error", output |-> None]

Analysis(path) ==
    [input |-> Basename(path), status |-> "analyzed", output |-> None]

CountStatus(results, st) ==
    Cardinality({i \in DOMAIN results : results[i].status = st})

create_error_response(kind) ==
    [status |-> "error", kind |-> kind, files_processed |-> None,
     files_failed |-> None]

create_success_response(kind, processed, failed) ==
    [status |-> "success", kind |-> kind, files_processed |-> processed,
     files_failed |-> failed]

\* a file can be processed when it is there and the parser, the template code and
\* the inkscape conversions all accept it
CanProcess(disk, path) == disk[path].exists /\ disk[path].good

MaxRuns == 2

MaxEnvSteps == 2

InitialDisks ==
    {d \in [PATHS -> [exists : BOOLEAN, mtime : {1}, good : BOOLEAN]] :
        /\ d[FullPath("notes.txt")].exists
        /\ \A p \in PATHS : ~d[p].exists \/ p \notin FIGURE_PATHS => d[p].good}

OutputSide == [dir |-> out_dir_made, written |-> out_files,
               manifest |-> manifest_file, temps |-> temp_files]

InitBatch ==
    /\ fs \in InitialDisks
    /\ out_dir_made = FALSE
    /\ out_files = {}
    /\ manifest_file = [exists |-> FALSE, entries |-> <<>>]
    /\ temp_files = {}
    /\ bpc = "idle"
    /\ batch_fn = ""
    /\ template_id = ""
    /\ export_format = ""
    /\ incremental = FALSE
    /\ files = <<>>
    /\ listed = <<>>
    /\ seen_mtime = <<>>
    /\ pos = 0
    /\ file_results = <<>>
    /\ errors = <<>>
    /\ manifest = <<>>
    /\ pending = None
    /\ response = None
    /\ at_call = None
    /\ runs = 0
    /\ env_steps = 0
    /\ ColorIdle
    /\ MapIdle
    /\ ExtractIdle
    /\ RoundTripIdle
    /\ CleanupIdle
    /\ TemplateIdle
    /\ ProcessIdle
    /\ ApplyIdle
    /\ AnalyzeIdle
    /\ read_mtime = [p \in PATHS |-> 0]

\* a call begins: its arguments, fresh locals, and what the disk held
Called(fn, tid, fmt, inc) ==
    /\ bpc \in {"idle", "done"}
    /\ runs < MaxRuns
    /\ runs' = runs + 1
    /\ batch_fn' = fn
    /\ template_id' = tid
    /\ export_format' = fmt
    /\ incremental' = inc
    /\ at_call' = OutputSide
    /\ pending' = None
    /\ errors' = <<>>
    /\ file_results' = <<>>
    /\ UNCHANGED <<fs, temp_files, env_steps>>

\* batch_improve, lines 256-262: the template is not known
ImproveUnknownTemplate(tid, fmt, inc) ==
    /\ Called("batch_improve", tid, fmt, inc)
    /\ tid \notin TEMPLATE_IDS
    /\ response' = create_error_response("template not found")
    /\ bpc' = "done"
    /\ files' = <<>>
    /\ listed' = <<>>
    /\ seen_mtime' = <<>>
    /\ pos' = 0
    /\ manifest' = <<>>
    /\ UNCHANGED <<out_dir_made, out_files, manifest_file>>
    /\ UNCHANGED read_mtime

\* batch_improve making the output directory before it looks for files
ImproveNoFiles_AfterMakedirs(tid, fmt, inc) ==
    /\ Called("batch_improve", tid, fmt, inc)
    /\ tid \in TEMPLATE_IDS
    /\ list_processable_files(fs) = <<>>
    /\ response' = create_error_response("no processable files")
    /\ bpc' = "done"
    /\ files' = <<>>
    /\ listed' = <<>>
    /\ seen_mtime' = <<>>
    /\ pos' = 0
    /\ manifest' = <<>>
    /\ out_dir_made' = TRUE
    /\ UNCHANGED <<out_files, manifest_file>>
    /\ UNCHANGED read_mtime

\* batch_improve, lines 266-273: no processable file
ImproveNoFiles(tid, fmt, inc) ==
    /\ Called("batch_improve", tid, fmt, inc)
    /\ tid \in TEMPLATE_IDS
    /\ list_processable_files(fs) = <<>>
    /\ response' = create_error_response("no processable files")
    /\ bpc' = "done"
    /\ files' = <<>>
    /\ listed' = <<>>
    /\ seen_mtime' = <<>>
    /\ pos' = 0
    /\ manifest' = <<>>
    /\ UNCHANGED <<out_dir_made, out_files, manifest_file>>
    /\ UNCHANGED read_mtime

\* batch_improve, lines 275-298: incremental, and every file is up to date
ImproveUpToDate(tid, fmt) ==
    /\ Called("batch_improve", tid, fmt, TRUE)
    /\ tid \in TEMPLATE_IDS
    /\ list_processable_files(fs) # <<>>
    /\ filter_changed_files(fs, list_processable_files(fs),
                            load_manifest(manifest_file)) = <<>>
    /\ out_dir_made' = TRUE
    /\ listed' = list_processable_files(fs)
    /\ seen_mtime' = [p \in PATHS |-> fs[p].mtime]
    /\ manifest' = load_manifest(manifest_file)
    /\ files' = <<>>
    /\ pos' = 0
    /\ response' = create_success_response("up to date", 0, None)
    /\ bpc' = "done"
    /\ UNCHANGED <<out_files, manifest_file>>
    /\ UNCHANGED read_mtime

\* batch_improve, lines 275-341: up to the loop over the files
ImproveBegin(tid, fmt, inc) ==
    /\ Called("batch_improve", tid, fmt, inc)
    /\ tid \in TEMPLATE_IDS
    /\ list_processable_files(fs) # <<>>
    /\ out_dir_made' = TRUE
    /\ listed' = list_processable_files(fs)
    /\ seen_mtime' = [p \in PATHS |-> fs[p].mtime]
    /\ manifest' = IF inc THEN load_manifest(manifest_file) ELSE <<>>
    /\ files' = IF inc THEN filter_changed_files(fs, list_processable_files(fs),
                                                 load_manifest(manifest_file))
                ELSE list_processable_files(fs)
    /\ files' # <<>>
    /\ pos' = 1
    /\ response' = None
    /\ bpc' = "process"
    /\ UNCHANGED <<out_files, manifest_file>>
    /\ UNCHANGED read_mtime

\* the loop body, lines 343-348: process_single_file returns
ProcessSingleFileOk ==
    /\ bpc = "process"
    /\ pos <= Len(files)
    /\ CanProcess(fs, files[pos])
    /\ out_files' = out_files \cup {OutName(files[pos], export_format)}
    /\ file_results' = Append(file_results, OkResult(files[pos], export_format))
    /\ bpc' = IF incremental THEN "manifest" ELSE "process"
    /\ pos' = IF incremental THEN pos ELSE pos + 1
    /\ UNCHANGED <<fs, out_dir_made, manifest_file, temp_files, batch_fn, template_id,
                   export_format, incremental, files, listed, seen_mtime, errors,
                   manifest, pending, response, at_call, runs, env_steps>>
    /\ read_mtime' = [read_mtime EXCEPT ![files[pos]] = fs[files[pos]].mtime]

\* ProcessSingleFileRaises with the manifest entry written all the same
ProcessSingleFileRaises_Records ==
    /\ bpc = "process"
    /\ pos <= Len(files)
    /\ ~CanProcess(fs, files[pos])
    /\ file_results' = Append(file_results, ErrorEntry(files[pos]))
    /\ errors' = Append(errors, Basename(files[pos]))
    /\ pos' = pos + 1
    /\ manifest' = WithEntry(manifest, files[pos], fs[files[pos]].mtime)
    /\ UNCHANGED <<fs, out_dir_made, out_files, manifest_file, temp_files, bpc, batch_fn,
                   template_id, export_format, incremental, files, listed, seen_mtime,
                   pending, response, at_call, runs, env_steps>>
    /\ UNCHANGED read_mtime

\* the loop body, lines 345-347 and 356-363: process_single_file raises
ProcessSingleFileRaises ==
    /\ bpc = "process"
    /\ pos <= Len(files)
    /\ ~CanProcess(fs, files[pos])
    /\ file_results' = Append(file_results, ErrorEntry(files[pos]))
    /\ errors' = Append(errors, Basename(files[pos]))
    /\ pos' = pos + 1
    /\ UNCHANGED <<fs, out_dir_made, out_files, manifest_file, temp_files, bpc, batch_fn,
                   template_id, export_format, incremental, files, listed, seen_mtime,
                   manifest, pending, response, at_call, runs, env_steps>>
    /\ UNCHANGED read_mtime

\* the loop body, lines 350-355: the manifest entry of the file just processed
UpdateManifest ==
    /\ bpc = "manifest"
    /\ fs[files[pos]].exists
    /\ manifest' = WithEntry(manifest, files[pos], fs[files[pos]].mtime)
    /\ pos' = pos + 1
    /\ bpc' = "process"
    /\ UNCHANGED <<fs, out_dir_made, out_files, manifest_file, temp_files, batch_fn,
                   template_id, export_format, incremental, files, listed, seen_mtime,
                   file_results, errors, pending, response, at_call, runs, env_steps>>
    /\ UNCHANGED read_mtime

\* the loop body, lines 350-363: os.path.getmtime or _file_hash raises OSError on a
\* file that is gone, inside the try whose result is already appended
UpdateManifestRaises ==
    /\ bpc = "manifest"
    /\ ~fs[files[pos]].exists
    /\ file_results' = Append(file_results, ErrorEntry(files[pos]))
    /\ errors' = Append(errors, Basename(files[pos]))
    /\ pos' = pos + 1
    /\ bpc' = "process"
    /\ UNCHANGED <<fs, out_dir_made, out_files, manifest_file, temp_files, batch_fn,
                   template_id, export_format, incremental, files, listed, seen_mtime,
                   manifest, pending, response, at_call, runs, env_steps>>
    /\ UNCHANGED read_mtime

\* batch_improve, lines 365-401: the manifest is saved and the call returns
ImproveReturn ==
    /\ bpc = "process"
    /\ pos > Len(files)
    /\ manifest_file' = IF incremental THEN SavedManifest(manifest) ELSE manifest_file
    /\ response' = create_success_response("complete",
                        CountStatus(file_results, "ok"),
                        Len(file_results) - CountStatus(file_results, "ok"))
    /\ bpc' = "done"
    /\ UNCHANGED <<fs, out_dir_made, out_files, temp_files, batch_fn, template_id,
                   export_format, incremental, files, listed, seen_mtime, pos,
                   file_results, errors, manifest, pending, at_call, runs, env_steps>>
    /\ UNCHANGED read_mtime

\* batch_analyze, lines 157-165: no processable file
AnalyzeNoFiles(tid) ==
    /\ Called("batch_analyze", tid, "", FALSE)
    /\ list_processable_files(fs) = <<>>
    /\ response' = create_error_response("no processable files")
    /\ bpc' = "done"
    /\ files' = <<>>
    /\ listed' = <<>>
    /\ seen_mtime' = <<>>
    /\ pos' = 0
    /\ manifest' = <<>>
    /\ UNCHANGED <<out_dir_made, out_files, manifest_file>>
    /\ UNCHANGED read_mtime

\* batch_analyze, lines 157-174: up to the loop over the files
AnalyzeBegin(tid) ==
    /\ Called("batch_analyze", tid, "", FALSE)
    /\ list_processable_files(fs) # <<>>
    /\ files' = list_processable_files(fs)
    /\ listed' = list_processable_files(fs)
    /\ seen_mtime' = <<>>
    /\ pos' = 1
    /\ manifest' = <<>>
    /\ response' = None
    /\ bpc' = "analyze"
    /\ UNCHANGED <<out_dir_made, out_files, manifest_file>>
    /\ UNCHANGED read_mtime

\* analyze_file on an SVG (lines 84-139 with is_pdf false) and the loop body
\* around it (lines 175-184)
AnalyzeSvg ==
    /\ bpc = "analyze"
    /\ pos <= Len(files)
    /\ Ext(files[pos]) \notin PDF_EXTENSIONS
    /\ file_results' = Append(file_results,
            IF CanProcess(fs, files[pos]) THEN Analysis(files[pos])
            ELSE ErrorEntry(files[pos]))
    /\ pos' = pos + 1
    /\ UNCHANGED <<fs, out_dir_made, out_files, manifest_file, temp_files, bpc, batch_fn,
                   template_id, export_format, incremental, files, listed, seen_mtime,
                   errors, manifest, pending, response, at_call, runs, env_steps>>
    /\ UNCHANGED read_mtime

\* analyze_file on a PDF, lines 93-135: the try block. inkscape writes the
\* temporary SVG; when it fails it may or may not have left one behind
AnalyzePdfTry(left) ==
    /\ bpc = "analyze"
    /\ pos <= Len(files)
    /\ Ext(files[pos]) \in PDF_EXTENSIONS
    /\ left \/ ~CanProcess(fs, files[pos])
    /\ temp_files' = IF left THEN temp_files \cup {AnalyzeTemp(files[pos])}
                     ELSE temp_files
    /\ pending' = IF CanProcess(fs, files[pos]) THEN "return" ELSE "raise"
    /\ bpc' = "analyze_finally"
    /\ UNCHANGED <<fs, out_dir_made, out_files, manifest_file, batch_fn, template_id,
                   export_format, incremental, files, listed, seen_mtime, pos,
                   file_results, errors, manifest, response, at_call, runs, env_steps>>
    /\ UNCHANGED read_mtime

\* analyze_file removing its temporary SVG only when the try block returned
AnalyzePdfFinally_OnSuccessOnly ==
    /\ bpc = "analyze_finally"
    /\ temp_files' = IF pending = "return" THEN temp_files \ {AnalyzeTemp(files[pos])}
                     ELSE temp_files
    /\ file_results' = Append(file_results,
            IF pending = "return" THEN Analysis(files[pos])
            ELSE ErrorEntry(files[pos]))
    /\ pending' = None
    /\ pos' = pos + 1
    /\ bpc' = "analyze"
    /\ UNCHANGED <<fs, out_dir_made, out_files, manifest_file, batch_fn, template_id,
                   export_format, incremental, files, listed, seen_mtime, errors,
                   manifest, response, at_call, runs, env_steps>>
    /\ UNCHANGED read_mtime

\* analyze_file on a PDF, lines 137-139: the finally block, and the loop body
\* around the call (lines 175-184)
AnalyzePdfFinally ==
    /\ bpc = "analyze_finally"
    /\ temp_files' = temp_files \ {AnalyzeTemp(files[pos])}
    /\ file_results' = Append(file_results,
            IF pending = "return" THEN Analysis(files[pos])
            ELSE ErrorEntry(files[pos]))
    /\ pending' = None
    /\ pos' = pos + 1
    /\ bpc' = "analyze"
    /\ UNCHANGED <<fs, out_dir_made, out_files, manifest_file, batch_fn, template_id,
                   export_format, incremental, files, listed, seen_mtime, errors,
                   manifest, response, at_call, runs, env_steps>>
    /\ UNCHANGED read_mtime

\* batch_analyze, lines 186-220: the summary is returned
AnalyzeReturn ==
    /\ bpc = "analyze"
    /\ pos > Len(files)
    /\ response' = create_success_response("analysis",
                        CountStatus(file_results, "analyzed"),
                        Len(file_results) - CountStatus(file_results, "analyzed"))
    /\ bpc' = "done"
    /\ UNCHANGED <<fs, out_dir_made, out_files, manifest_file, temp_files, batch_fn,
                   template_id, export_format, incremental, files, listed, seen_mtime,
                   pos, file_results, errors, manifest, pending, at_call, runs,
                   env_steps>>
    /\ UNCHANGED read_mtime

\* another process rewrites an input file
EnvTouch(path) ==
    /\ env_steps < MaxEnvSteps
    /\ fs[path].exists
    /\ fs' = [fs EXCEPT ![path].mtime = @ + 1]
    /\ env_steps' = env_steps + 1
    /\ UNCHANGED <<out_dir_made, out_files, manifest_file, temp_files, bpc, batch_fn,
                   template_id, export_format, incremental, files, listed, seen_mtime,
                   pos, file_results, errors, manifest, pending, response, at_call,
                   runs>>
    /\ UNCHANGED read_mtime

\* another process removes or renames an input file
EnvRemove(path) ==
    /\ env_steps < MaxEnvSteps
    /\ fs[path].exists
    /\ fs' = [fs EXCEPT ![path].exists = FALSE]
    /\ env_steps' = env_steps + 1
    /\ UNCHANGED <<out_dir_made, out_files, manifest_file, temp_files, bpc, batch_fn,
                   template_id, export_format, incremental, files, listed, seen_mtime,
                   pos, file_results, errors, manifest, pending, response, at_call,
                   runs>>
    /\ UNCHANGED read_mtime

NextBatch ==
    /\ \/ \E tid \in SOME_TEMPLATE_IDS, fmt \in EXPORT_FORMATS, inc \in BOOLEAN :
            \/ ImproveUnknownTemplate(tid, fmt, inc)
            \/ ImproveNoFiles(tid, fmt, inc)
            \/ ImproveBegin(tid, fmt, inc)
       \/ \E tid \in SOME_TEMPLATE_IDS, fmt \in EXPORT_FORMATS : ImproveUpToDate(tid, fmt)
       \/ ProcessSingleFileOk
       \/ ProcessSingleFileRaises
       \/ UpdateManifest
       \/ UpdateManifestRaises
       \/ ImproveReturn
       \/ \E tid \in SOME_TEMPLATE_IDS \cup {""} : AnalyzeNoFiles(tid) \/ AnalyzeBegin(tid)
       \/ AnalyzeSvg
       \/ \E left \in BOOLEAN : AnalyzePdfTry(left)
       \/ AnalyzePdfFinally
       \/ AnalyzeReturn
       \/ \E path \in FIGURE_PATHS : EnvTouch(path) \/ EnvRemove(path)
    /\ UNCHANGED <<colorVars, mapVars, extractVars, roundTripVars, cleanupVars, templateVars, processVars, applyVars, analyzeVars>>

SpecBatch == InitBatch /\ [][NextBatch]_vars

\* ------------------------------------------------------------- the template store
\* template_operations.py: save_template over the built-in templates (read only)
\* and the user templates file.

\* the ids of templates/styles.json
BUILTIN_IDS == {"nature", "science"}

\* _load_builtin_templates: what styles.json holds
BuiltinTemplates ==
    [id \in BUILTIN_IDS |->
        [name |-> id, palette |-> <<"#e6550d", "#2171b5">>, custom |-> FALSE]]

\* load_templates: the built-in templates, updated with the user templates
load_templates(builtin, user) ==
    [id \in DOMAIN builtin \cup DOMAIN user |->
        IF id \in DOMAIN user THEN user[id] ELSE builtin[id]]

\* delete_template emptying the user file
WithoutTemplate_Any(user, id) == <<>>

\* del user_templates[template_id]
WithoutTemplate(user, id) == [k \in DOMAIN user \ {id} |-> user[k]]

IsIdChar(c) ==
    \/ IsDecDigit(c)
    \/ c \in DOMAIN LOWER_OF
    \/ \E u \in DOMAIN LOWER_OF : c = LOWER_OF[u]
    \/ c \in {"_", "-"}

RECURSIVE AllIdChars(_)
AllIdChars(s) == s = "" \/ (IsIdChar(Char(s, 1)) /\ AllIdChars(Tail(s)))

RECURSIVE OnlyHexDigits(_)
OnlyHexDigits(s) == s = "" \/ (IsHexDigit(Char(s, 1)) /\ OnlyHexDigits(Tail(s)))

\* where "$" of a python regex matches: at the end of the string, and before a
\* newline that ends it
DollarEnds(s) ==
    IF Len(s) > 0 /\ Char(s, Len(s)) = "\n" THEN {Len(s), Len(s) - 1} ELSE {Len(s)}

\* _VALID_ID_RE.match: ^[a-zA-Z0-9_-]+$
MatchesValidId(s) ==
    \E n \in DollarEnds(s) : n >= 1 /\ AllIdChars(SubSeq(s, 1, n))

\* _HEX_COLOR_RE.match: ^#(?:[0-9a-fA-F]{3}){1,2}$
MatchesHexColor(s) ==
    \E n \in DollarEnds(s) :
        /\ n \in {4, 7}
        /\ Char(s, 1) = "#"
        /\ OnlyHexDigits(SubSeq(s, 2, n))

validate_template_id(id) ==
    IF id = "" THEN "Template ID cannot be empty"
    ELSE IF ~MatchesValidId(id)
         THEN "Template ID must be alphanumeric with hyphens/underscores only"
         ELSE None

RECURSIVE FirstBadColor(_)
FirstBadColor(pal) ==
    IF pal = <<>> THEN None
    ELSE IF ~MatchesHexColor(Head(pal)) THEN "Invalid hex color in palette"
    ELSE FirstBadColor(Tail(pal))

\* a template's data: name is None when the dict has no "name" key, palette is
\* colors.palette ([] when either key is missing)
validate_template_data(data) ==
    IF data.name = None THEN "Template must have a 'name' field"
    ELSE IF data.palette = <<>>
         THEN "Template must have 'colors.palette' with at least one color"
         ELSE FirstBadColor(data.palette)

\* save_template protecting a built-in id from its own user template too
IsProtected_FromUserToo(id, frc, user) == ~frc /\ id \in BUILTIN_IDS

\* save_template, lines 127-136: the id is built-in and no user template has it
IsProtected(id, frc, user) ==
    ~frc /\ id \in BUILTIN_IDS /\ id \notin DOMAIN user

\* lines 138-140: template_data["custom"] = True; user_templates[id] = template_data
WithTemplate(user, id, data) ==
    [k \in DOMAIN user \cup {id} |->
        IF k = id THEN [data EXCEPT !.custom = TRUE] ELSE user[k]]

SOME_IDS == {"", "nature", "my-style_2", "my style", "lab\n"}

SOME_NAMES == {None, "Mine"}

SOME_PALETTES ==
    {<<>>, <<"#fff">>, <<"#2171B5", "#e6550d">>, <<"#fff", "red">>, <<"#ffff">>,
     <<"#fff\n">>}

TemplateDatas == [name : SOME_NAMES, palette : SOME_PALETTES, custom : {FALSE}]

MaxSaves == 2

InitTemplate ==
    /\ user_templates = <<>>
    /\ tpl_id = ""
    /\ template_data = None
    /\ force = FALSE
    /\ stored_before = <<>>
    /\ tpl_response = None
    /\ saves = 0
    /\ builtin_templates = BuiltinTemplates
    /\ tpl_op = ""
    /\ deletes = 0
    /\ ColorIdle
    /\ MapIdle
    /\ ExtractIdle
    /\ RoundTripIdle
    /\ CleanupIdle
    /\ BatchIdle
    /\ ProcessIdle
    /\ ApplyIdle
    /\ AnalyzeIdle
    /\ ReadIdle

SaveCalled(id, data, frc) ==
    /\ saves < MaxSaves
    /\ saves' = saves + 1
    /\ tpl_id' = id
    /\ force' = frc
    /\ stored_before' = user_templates
    /\ tpl_op' = "save_template"
    /\ UNCHANGED <<builtin_templates, deletes>>

TemplateError(msg) == [status |-> "error", error |-> msg]

\* save_template, lines 119-121: the id does not validate
SaveRejectsId(id, data, frc) ==
    /\ SaveCalled(id, data, frc)
    /\ validate_template_id(id) # None
    /\ tpl_response' = TemplateError(validate_template_id(id))
    /\ template_data' = data
    /\ UNCHANGED user_templates

\* save_template, lines 123-125: the data does not validate
SaveRejectsData(id, data, frc) ==
    /\ SaveCalled(id, data, frc)
    /\ validate_template_id(id) = None
    /\ validate_template_data(data) # None
    /\ tpl_response' = TemplateError(validate_template_data(data))
    /\ template_data' = data
    /\ UNCHANGED user_templates

\* save_template, lines 127-136: a built-in template is not overridden
SaveRejectsBuiltin(id, data, frc) ==
    /\ SaveCalled(id, data, frc)
    /\ validate_template_id(id) = None
    /\ validate_template_data(data) = None
    /\ IsProtected(id, frc, user_templates)
    /\ tpl_response' = TemplateError("is a built-in template")
    /\ template_data' = data
    /\ UNCHANGED user_templates

\* save_template, lines 138-147: the template is written to the user file
SaveStores(id, data, frc) ==
    /\ SaveCalled(id, data, frc)
    /\ validate_template_id(id) = None
    /\ validate_template_data(data) = None
    /\ ~IsProtected(id, frc, user_templates)
    /\ user_templates' = WithTemplate(user_templates, id, data)
    /\ template_data' = [data EXCEPT !.custom = TRUE]
    /\ tpl_response' = [status |-> "success", error |-> None]

MaxDeletes == 1

DeleteCalled(id) ==
    /\ deletes < MaxDeletes
    /\ deletes' = deletes + 1
    /\ tpl_id' = id
    /\ tpl_op' = "delete_template"
    /\ stored_before' = user_templates
    /\ UNCHANGED <<builtin_templates, template_data, force, saves>>

\* delete_template, lines 159-164: no user template has the id, a built-in has
DeleteRejectsBuiltin(id) ==
    /\ DeleteCalled(id)
    /\ id \notin DOMAIN user_templates
    /\ id \in DOMAIN builtin_templates
    /\ tpl_response' = TemplateError("is a built-in template and cannot be deleted")
    /\ UNCHANGED user_templates

\* delete_template, lines 159-165: no template has the id
DeleteNotFound(id) ==
    /\ DeleteCalled(id)
    /\ id \notin DOMAIN user_templates
    /\ id \notin DOMAIN builtin_templates
    /\ tpl_response' = TemplateError("not found")
    /\ UNCHANGED user_templates

\* delete_template, lines 167-170: the user template is removed from the user file
DeleteRemoves(id) ==
    /\ DeleteCalled(id)
    /\ id \in DOMAIN user_templates
    /\ user_templates' = WithoutTemplate(user_templates, id)
    /\ tpl_response' = [status |-> "success", error |-> None]

NextTemplate ==
    /\ \/ \E id \in SOME_IDS, data \in TemplateDatas, frc \in BOOLEAN :
            \/ SaveRejectsId(id, data, frc)
            \/ SaveRejectsData(id, data, frc)
            \/ SaveRejectsBuiltin(id, data, frc)
            \/ SaveStores(id, data, frc)
       \/ \E id \in SOME_IDS :
            \/ DeleteRejectsBuiltin(id)
            \/ DeleteNotFound(id)
            \/ DeleteRemoves(id)
    /\ UNCHANGED <<colorVars, mapVars, extractVars, roundTripVars, cleanupVars, batchVars, processVars, applyVars, analyzeVars, readVars>>

SpecTemplate == InitTemplate /\ [][NextTemplate]_vars

\* ------------------------------------------- the colour map and its application
\* A watch over a directory that holds one SVG file, with auto_color: each cycle is
\* a batch_improve over the same options dict, which computes the colour map when
\* the dict holds none, generates the template code and runs it on the file's tree.

RECURSIVE ReSubIgnoreCase(_, _, _)
\* re.sub(re.escape(old_color), new_color, style, flags=re.IGNORECASE): every
\* occurrence of old_color, matched from left to right, replaced by new_color.
ReSubIgnoreCase(style, old_color, new_color) ==
    IF Len(style) < Len(old_color) THEN style
    ELSE IF Lower(SubSeq(style, 1, Len(old_color))) = Lower(old_color)
    THEN new_color \o ReSubIgnoreCase(SubSeq(style, Len(old_color) + 1, Len(style)),
                                      old_color, new_color)
    ELSE Char(style, 1) \o ReSubIgnoreCase(Tail(style), old_color, new_color)

\* "if old_color.lower() in style.lower():"
StyleHolds(style, old_color) == Contains(Lower(style), Lower(old_color))

\* One turn of "for old_color, new_color in color_map.items()".
RemapOnce(style, item) ==
    IF StyleHolds(style, item[1]) THEN ReSubIgnoreCase(style, item[1], item[2]) ELSE style

RECURSIVE RemapStyle(_, _)
\* The style after the loop over color_map.items(), the entries taken in the
\* order of the dict, each one applied to the style the ones before it left.
RemapStyle(style, items) ==
    IF items = <<>> THEN style
    ELSE RemapStyle(RemapOnce(style, Head(items)), Tail(items))

RECURSIVE StyleChanged(_, _)
\* "changed" after the loop.
StyleChanged(style, items) ==
    IF items = <<>> THEN FALSE
    ELSE StyleHolds(style, Head(items)[1])
         \/ StyleChanged(RemapOnce(style, Head(items)), Tail(items))

\* 'style = elem.get("style", "")', "if style:".
HasStyle(node) == node.kind = "element" /\ node.style # ""

\* One element under the generated code: only its style attribute is read and set.
RemapNode(node, items) ==
    IF HasStyle(node) THEN [node EXCEPT !.style = RemapStyle(node.style, items)] ELSE node

\* The tree after "for elem in svg.iter()".
RemapTree(nodes, items) == [i \in DOMAIN nodes |-> RemapNode(nodes[i], items)]

\* "modified += 1" for every element whose style held a key.
RemapModified(nodes, items) ==
    Cardinality({i \in DOMAIN nodes : HasStyle(nodes[i]) /\ StyleChanged(nodes[i].style, items)})

\* generate_apply_code: the colour map part is there "if color_map:".
MapOfOpts(opts) == IF opts.has_color_map THEN opts.color_map ELSE <<>>

\* The auto colour block of batch_improve that computes a map whatever opts holds.
AutoColorRuns_Always(opts, pal, nodes) ==
    pal # <<>> /\ extract_data_colors(nodes, 1) # <<>>

\* 'if auto_color and "color_map" not in opts:', "if palette:",
\* "if agg_data_colors:" with the one file's data colours.
AutoColorRuns(opts, pal, nodes) ==
    ~opts.has_color_map /\ pal # <<>> /\ extract_data_colors(nodes, 1) # <<>>

MaxApplyNodes == 3
MaxCycles == 2

ApplyNodePool ==
    {Element("fill:#00ff00;stroke:#00ff00", "", ""),
     Element("fill:#ff0000", "", ""),
     Element("stroke:#FF0000", "#00ff00", ""),
     Element("", "", "#ff0000"),
     Element("fill:lime", "", ""),
     [kind |-> "comment", text |-> "fill:#ff0000"]}

ApplyPalettes == {<<>>, <<"#0000ff", "#ff0000">>, <<"#e6550d", "#00ff00">>}

\* The options the caller passes: no colour map, or one of its own.
ApplyOpts ==
    {[has_color_map |-> FALSE, color_map |-> <<>>],
     [has_color_map |-> TRUE, color_map |-> <<>>],
     [has_color_map |-> TRUE, color_map |-> <<<<"#00ff00", "#e6550d">>>>]}

InitApply ==
    /\ ap_doc = <<>>
    /\ ap_palette \in ApplyPalettes
    /\ ap_opts \in ApplyOpts
    /\ ap_out = <<>>
    /\ ap_modified = 0
    /\ ap_pc = "watch"
    /\ ap_changed = FALSE
    /\ ap_cycles = 0
    /\ ap_computed = 0
    /\ ColorIdle
    /\ MapIdle
    /\ ExtractIdle
    /\ RoundTripIdle
    /\ CleanupIdle
    /\ BatchIdle
    /\ TemplateIdle
    /\ ProcessIdle
    /\ AnalyzeIdle
    /\ ReadIdle

\* A writer saves the input file with one more element.
WriterAddsNode ==
    /\ ap_pc = "watch"
    /\ Len(ap_doc) < MaxApplyNodes
    /\ \E n \in ApplyNodePool : ap_doc' = Append(ap_doc, n)
    /\ ap_changed' = TRUE
    /\ UNCHANGED <<ap_palette, ap_opts, ap_out, ap_modified, ap_pc, ap_cycles, ap_computed>>

\* A cycle of batch_watch finds the file changed; batch_improve computes the colour
\* map and stores it in the options dict.
AutoColorComputes ==
    /\ ap_pc = "watch"
    /\ ap_changed
    /\ ap_cycles < MaxCycles
    /\ AutoColorRuns(ap_opts, ap_palette, ap_doc)
    /\ ap_opts' = [has_color_map |-> TRUE,
                   color_map |-> auto_map_colors(extract_data_colors(ap_doc, 1), ap_palette)]
    /\ ap_computed' = ap_computed + 1
    /\ ap_pc' = "generate"
    /\ UNCHANGED <<ap_doc, ap_palette, ap_out, ap_modified, ap_changed, ap_cycles>>

\* A cycle of batch_watch finds the file changed; batch_improve passes over the
\* auto colour block.
AutoColorSkips ==
    /\ ap_pc = "watch"
    /\ ap_changed
    /\ ap_cycles < MaxCycles
    /\ ~AutoColorRuns(ap_opts, ap_palette, ap_doc)
    /\ ap_pc' = "generate"
    /\ UNCHANGED <<ap_doc, ap_palette, ap_opts, ap_out, ap_modified, ap_changed, ap_cycles,
                   ap_computed>>

\* The generated colour map code runs on the tree of the file; the cycle ends.
RunColorMapCode ==
    /\ ap_pc = "generate"
    /\ ap_out' = RemapTree(ap_doc, MapOfOpts(ap_opts))
    /\ ap_modified' = RemapModified(ap_doc, MapOfOpts(ap_opts))
    /\ ap_pc' = "watch"
    /\ ap_changed' = FALSE
    /\ ap_cycles' = ap_cycles + 1
    /\ UNCHANGED <<ap_doc, ap_palette, ap_opts, ap_computed>>

NextApply ==
    /\ \/ WriterAddsNode
       \/ AutoColorComputes
       \/ AutoColorSkips
       \/ RunColorMapCode
    /\ UNCHANGED <<colorVars, mapVars, extractVars, roundTripVars, cleanupVars, batchVars, templateVars, processVars, analyzeVars, readVars>>

SpecApply == InitApply /\ [][NextApply]_vars

\* ================================================================== claims
\* ------------------------------------------------ vocabulary of the claims
\* '#' followed by exactly six lowercase hexadecimal digits.
IsCanonicalColor(s) ==
    /\ Len(s) = 7
    /\ Char(s, 1) = "#"
    /\ \A i \in 2..7 : \E k \in 1..16 : Char(s, i) = Char(HEXDIGITS, k)

AllHexDigits(s) == \A i \in 1..Len(s) : IsHexDigit(Char(s, i))

\* A #rgb or #rrggbb colour, with or without the leading '#'.
IsValidHexColor(s) == Len(LStripHash(s)) \in {3, 6} /\ AllHexDigits(LStripHash(s))

\* What normalize_color is specified to recognise, after trimming and lowercasing:
\* a named colour, a hex colour, an rgb(r, g, b) call with components up to 255.
IsRecognisedColor(s) ==
    \/ s \in DOMAIN NAMED_COLORS
    \/ StartsWith(s, "#") /\ IsValidHexColor(s)
    \/ /\ RgbFuncMatch(s).ok
       /\ \A i \in 1..3 : RgbFuncMatch(s).val[i] \in 0..255

\* C5: normalize_color returns None or a canonical colour ('#' and six lowercase
\* hexadecimal digits), whatever follows the '#' of the input.
C5_NormalizeReturnsCanonical ==
    op = "normalize_color" => (result = None \/ IsCanonicalColor(result))

\* C6: normalize_color returns None for every input that is not a named colour, a
\* #rgb / #rrggbb colour or an rgb(r, g, b) call with components up to 255 (so for
\* the empty string, none, transparent, inherit, currentcolor and url(...) too).
C6_NormalizeRejectsUnrecognised ==
    (op = "normalize_color" /\ ~IsRecognisedColor(Lower(Strip(input))))
        => result = None

\* C9: hex_to_rgb returns three integers in 0..255 for a #rgb or #rrggbb colour and
\* raises ValueError for every other string.
C9_HexToRgbContract ==
    op = "hex_to_rgb" =>
        IF IsValidHexColor(input)
        THEN result.raised = "" /\ \A i \in 1..3 : result.val[i] \in 0..255
        ELSE result.raised = "ValueError"

\* C10: for every string that is not a valid hex colour is_grayscale returns False
\* and color_lightness returns 50.0.
C10_ClassifierFailsOpen ==
    ~IsValidHexColor(input) =>
        /\ op = "is_grayscale" => result = FALSE
        /\ op = "color_lightness" => result = LIGHTNESS_DEFAULT

\* ----------------------------------------------- auto_map_colors, the claims
\* hex_to_lab of the colours of the pools, computed once.
PoolLab == [c \in FoundPool \cup PalettePool |-> hex_to_lab(c)]

Parses(c) == PoolLab[c].raised = ""

\* The positions of the palette entries that parse.
ParsedPalette == {n \in 1..Len(palette) : Parses(palette[n])}

\* The distance of found colour j to palette entry n.
Dist(j, n) == delta_e(PoolLab[found_colors[j][1]].val, PoolLab[palette[n]].val)

\* Iteration j recorded a mapping: it chose an entry other than its own colour.
Recorded(j) == assigned[j] # None /\ assigned[j] # found_colors[j][1]

\* The palette entries the assignments before iteration j used.
UsedBefore(j) == {assigned[k] : k \in {k \in 1..(j - 1) : Recorded(k)}}

\* The positions of the palette entries still unused at iteration j.
Unused(j) == {n \in ParsedPalette : palette[n] \notin UsedBefore(j)}

\* The entry of least distance among the positions C, the earliest on a tie.
Nearest(j, C) ==
    CHOOSE n \in C :
        \A m \in C : Dist(j, n) < Dist(j, m) \/ (Dist(j, n) = Dist(j, m) /\ n <= m)

\* The last iteration that recorded a mapping for the colour c.
LastRecorded(c) ==
    CHOOSE j \in 1..Len(assigned) :
        /\ found_colors[j][1] = c /\ Recorded(j)
        /\ \A k \in (j + 1)..Len(assigned) : ~(found_colors[k][1] = c /\ Recorded(k))

\* Every found colour and every palette entry is a valid hex colour, and no found
\* colour is listed twice.
WellFormedInputs ==
    /\ \A n \in 1..Len(palette) : IsValidHexColor(palette[n])
    /\ \A j \in 1..Len(found_colors) : IsValidHexColor(found_colors[j][1])
    /\ \A j, k \in 1..Len(found_colors) :
        found_colors[j][1] = found_colors[k][1] => j = k

\* C1: the mapping of auto_map_colors holds no self-mapping, no key k with
\* mapping[k] = k.
C1_NoSelfMapping ==
    \A k \in 1..Len(color_map) : color_map[k][1] # color_map[k][2]

\* A found colour chose the identical palette string and got no entry.
C1_Witness ==
    /\ mpc = "done"
    /\ WellFormedInputs
    /\ \E j \in 1..Len(assigned) :
        /\ assigned[j] = found_colors[j][1]
        /\ found_colors[j][1] \notin DictKeys(color_map)

ValidFoundEntry(e) == IsValidHexColor(e[1])

\* C4: an entry that is not a valid hex colour is never a key or a value of the
\* mapping, and the mapping is the one of the inputs without the malformed entries.
C4_MalformedEntriesSkipped ==
    mpc = "done" =>
        /\ \A k \in 1..Len(color_map) :
            IsValidHexColor(color_map[k][1]) /\ IsValidHexColor(color_map[k][2])
        /\ color_map = auto_map_colors(SelectSeq(found_colors, ValidFoundEntry),
                                       SelectSeq(palette, IsValidHexColor))


\* ------------------------------------------------- the extractor, the claims
RECURSIVE SplitAt(_, _)
\* The pieces of s between the occurrences of the character sep.
SplitAt(s, sep) ==
    IF \A i \in 1..Len(s) : Char(s, i) # sep THEN <<s>>
    ELSE LET i == CHOOSE i \in 1..Len(s) :
                    Char(s, i) = sep /\ \A k \in 1..(i - 1) : Char(s, k) # sep
         IN  <<SubSeq(s, 1, i - 1)>> \o SplitAt(SubSeq(s, i + 1, Len(s)), sep)

\* The declarations "name: value" of a style attribute.
Declarations(style) == SplitAt(style, ";")

DeclaredName(d) == Strip(Head(SplitAt(d, ":")))

DeclaredValue(d) == SubSeq(d, Len(Head(SplitAt(d, ":"))) + 2, Len(d))

\* The value a style declares for the property prop, "" if it declares none.
Declared(style, prop) ==
    LET decls == Declarations(style)
        named == {k \in 1..Len(decls) : DeclaredName(decls[k]) = prop}
    IN  IF named = {} THEN ""
        ELSE DeclaredValue(decls[CHOOSE k \in named : \A m \in named : k <= m])

\* The occurrence sites: 1 style fill, 2 style stroke, 3 attribute fill, 4 attribute
\* stroke.
Sites == 1..4

\* What the value of site s of node i normalizes to; a node that is no element has
\* no sites.
NormalizedSite(i, s) ==
    IF doc[i].kind # "element" THEN None
    ELSE normalize_color(CASE s = 1 -> Declared(doc[i].style, "fill")
                           [] s = 2 -> Declared(doc[i].style, "stroke")
                           [] s = 3 -> doc[i].fill
                           [] s = 4 -> doc[i].stroke)

\* The (element, site) pairs whose value normalizes to the colour c.
SitesOf(c) == {p \in (1..Len(doc)) \X Sites : NormalizedSite(p[1], p[2]) = c}

\* The position of the key c in a dict: keys are kept in first insertion order.
KeyIndex(dict, c) == CHOOSE k \in 1..Len(dict) : dict[k][1] = c

PairsOf(seq) == {seq[k] : k \in 1..Len(seq)}

\* C7: extract_data_colors(tree, m) returns exactly the pairs (c, n) of
\* extract_colors(tree) with c not grayscale and n >= m, each once, by count
\* non-increasing, equal counts in first-encounter order; an empty document gives the
\* empty list.
C7_DataColorsFilteredAndSorted ==
    call = "extract_data_colors" =>
        LET all == extract_colors(doc)
        IN  /\ PairsOf(ret)
                = {p \in PairsOf(all) : ~is_grayscale(p[1]) /\ p[2] >= min_occurrences}
            /\ \A i, j \in 1..Len(ret) : ret[i][1] = ret[j][1] => i = j
            /\ \A i, j \in 1..Len(ret) : i < j => ret[i][2] >= ret[j][2]
            /\ \A i, j \in 1..Len(ret) :
                (i < j /\ ret[i][2] = ret[j][2])
                    => KeyIndex(all, ret[i][1]) < KeyIndex(all, ret[j][1])
            /\ doc = <<>> => ret = <<>>

\* A grayscale colour that meets the threshold is left out, two colours of equal
\* count are returned, and a colour met first in the document is returned after a
\* more frequent one.
C7_Witness ==
    /\ call = "extract_data_colors"
    /\ \E p \in PairsOf(extract_colors(doc)) :
        is_grayscale(p[1]) /\ p[2] >= min_occurrences /\ p \notin PairsOf(ret)
    /\ \E i, j \in 1..Len(ret) : i < j /\ ret[i][2] = ret[j][2]
    /\ \E i, j \in 1..Len(ret) :
        /\ i < j
        /\ ret[i][2] > ret[j][2]
        /\ KeyIndex(extract_colors(doc), ret[j][1]) < KeyIndex(extract_colors(doc), ret[i][1])

\* C8: extract_colors counts occurrence sites.  The count of a colour is the number
\* of (element, site) pairs whose value normalizes to it, style and attribute sites
\* counted each; a value that normalizes to None and a node that is no element add
\* nothing.
C8_CountsOccurrenceSites ==
    call = "extract_colors" =>
        /\ \A k \in 1..Len(ret) :
            /\ ret[k][1] # None
            /\ ret[k][2] = Cardinality(SitesOf(ret[k][1]))
            /\ ret[k][2] >= 1
        /\ \A j, k \in 1..Len(ret) : ret[j][1] = ret[k][1] => j = k
        /\ \A p \in (1..Len(doc)) \X Sites :
            NormalizedSite(p[1], p[2]) # None
                => NormalizedSite(p[1], p[2]) \in DictKeys(ret)

\* An element has the same fill in its style and as an attribute and adds 2, the
\* document holds a comment, and the value of a site that is there normalizes to None.
C8_Witness ==
    /\ call = "extract_colors"
    /\ \E i \in 1..Len(doc) :
        /\ doc[i].kind = "element"
        /\ NormalizedSite(i, 1) # None
        /\ NormalizedSite(i, 1) = NormalizedSite(i, 3)
        /\ DictGet(ret, NormalizedSite(i, 1)) = 2
    /\ \E i \in 1..Len(doc) : doc[i].kind = "comment"
    /\ \E i \in 1..Len(doc) :
        doc[i].kind = "element" /\ doc[i].stroke # "" /\ NormalizedSite(i, 4) = None

\* ------------------------------------------------ the round trip, the claim
\* C11: for every canonical colour c ('#' and six lowercase hexadecimal digits)
\* rgb_to_hex(*hex_to_rgb(c)) = c, and rgb_to_hex of r, g, b in 0..255 is a
\* '#'-prefixed, zero-padded, lowercase string of 7 characters.
C11_HexRgbRoundTrip ==
    /\ rt_op = "round_trip" => rt_result = hex_arg
    /\ rt_op = "rgb_to_hex" => IsCanonicalColor(rt_result)

\* The round trip of a colour with a channel below 16 (a field that needs its
\* padding zero) and a channel written with letters.
C11_Witness ==
    /\ rt_op = "round_trip"
    /\ IsCanonicalColor(hex_arg)
    /\ \E i \in 1..3 : hex_to_rgb(hex_arg).val[i] \in 1..15
    /\ \E i \in 1..3 : hex_to_rgb(hex_arg).val[i] > 160
    /\ rt_result = hex_arg

\* ------------------------------------ the detector and cleaner, the claims
\* The nodes of a tree as a set of positions.
NodesOf(tree) == 1..Len(tree.nodes)

\* A rect of the tree that the background test selects: white resolved fill, width
\* and height at least those of the canvas.
CoversCanvas(tree, k) ==
    /\ parse_dimension(tree.nodes[k].width) >= CanvasWidth(tree.root)
    /\ parse_dimension(tree.nodes[k].height) >= CanvasHeight(tree.root)

IsRectAt(tree, k) == tree.nodes[k].kind = "element" /\ tree.nodes[k].tag = "rect"

HasWhiteFill(tree, k) ==
    LET n == tree.nodes[k]
        declared == {d \in 1..Len(n.style) : n.style[d][1] = "fill"}
    IN  IF declared = {} THEN normalize_color(n.fill) = "#ffffff"
        ELSE normalize_color(n.style[CHOOSE d \in declared : \A e \in declared : d <= e][2])
                = "#ffffff"

BackgroundRects(tree) ==
    {k \in NodesOf(tree) : IsRectAt(tree, k) /\ HasWhiteFill(tree, k) /\ CoversCanvas(tree, k)}

StyleBlocks(tree) ==
    {k \in NodesOf(tree) : tree.nodes[k].kind = "element" /\ tree.nodes[k].tag = "style"}

\* The font-family an element declares in its own style, "" if none.
OwnFont(n) ==
    LET declared == {d \in 1..Len(n.style) : n.style[d][1] = "font-family"}
    IN  IF declared = {} THEN ""
        ELSE n.style[CHOOSE d \in declared : \A e \in declared : d <= e][2]

\* The font-family a style block declares, "" if none.
BlockFont(n) ==
    LET declared == {d \in 1..Len(n.rules) : n.rules[d][1] = "font-family"}
    IN  IF declared = {} THEN ""
        ELSE n.rules[CHOOSE d \in declared : \A e \in declared : d <= e][2]

\* The font-family of node k once the style blocks are inlined: its own, else the
\* one of the first style block that declares one.
EffectiveFont(tree, k) ==
    LET n == tree.nodes[k]
        blocks == {b \in StyleBlocks(tree) : BlockFont(tree.nodes[b]) # ""}
    IN  IF n.kind # "element" \/ n.tag = "style" THEN ""
        ELSE IF OwnFont(n) # "" THEN OwnFont(n)
        ELSE IF blocks = {} \/ n.tag \notin {"rect", "text", "g", "circle", "path"} THEN ""
        ELSE BlockFont(tree.nodes[CHOOSE b \in blocks : \A c \in blocks : b <= c])

\* The nodes whose library font reference a cleanup rewrites.
LibraryFontNodes(tree) ==
    {k \in NodesOf(tree) \ BackgroundRects(tree) :
        Contains(EffectiveFont(tree, k), "DejaVu Sans")}

\* The nodes of tree at the positions keep, in document order.
RECURSIVE Restricted(_, _, _)
Restricted(tree, keep, k) ==
    IF k > Len(tree.nodes) THEN <<>>
    ELSE (IF k \in keep THEN <<tree.nodes[k]>> ELSE <<>>) \o Restricted(tree, keep, k + 1)

SomeBlockDeclaresFill(tree) ==
    \E b \in StyleBlocks(tree) :
        \E d \in 1..Len(tree.nodes[b].rules) : tree.nodes[b].rules[d][1] = "fill"

C13_BackgroundRectsRemoved ==
    cl_call = "remove_background_rects" =>
        /\ svg.nodes = Restricted(svg_before, NodesOf(svg_before) \ BackgroundRects(svg_before), 1)
        /\ svg.root = svg_before.root
        /\ cl_ret = Cardinality(BackgroundRects(svg_before))
        /\ svg_before.root.width = "abc" => CanvasWidth(svg_before.root) = 0
        /\ svg_before.root.width = "" => CanvasWidth(svg_before.root) = 640000
        /\ svg_before.root.height = "" => CanvasHeight(svg_before.root) = 480000

\* A full-canvas white rect is removed while a white rect that does not cover the
\* canvas and a full-canvas rect that is not white are kept.
C13_Witness ==
    /\ cl_call = "remove_background_rects"
    /\ cl_ret = 1
    /\ \E k \in NodesOf(svg) : IsRectAt(svg, k) /\ HasWhiteFill(svg, k) /\ ~CoversCanvas(svg, k)
    /\ \E k \in NodesOf(svg) : IsRectAt(svg, k) /\ ~HasWhiteFill(svg, k) /\ CoversCanvas(svg, k)

\* The signatures of the plotting library in a tree.
Signatures(tree) ==
    {k \in NodesOf(tree) :
        LET n == tree.nodes[k]
        IN  \/ n.kind = "element" /\ n.tag = "creator" /\ Contains(n.text, "matplotlib")
            \/ /\ n.kind = "element"
               /\ \/ StartsWith(n.id, "figure_")
                  \/ StartsWith(n.id, "axes_")
                  \/ StartsWith(n.id, "patch_")
            \/ n.kind = "comment" /\ Contains(n.text, "matplotlib")}

\* C14: the detector returns true if and only if a signature is present: a creator
\* field that contains the library name, an element id of the figure_ / axes_ /
\* patch_ convention, or a comment anywhere in the subtree that contains the library
\* name.
C14_DetectorIffSignature ==
    cl_call = "is_matplotlib_svg" => (cl_ret = TRUE <=> Signatures(svg) # {})

\* The only signature of the document is a comment below the top level.
C14_Witness ==
    /\ cl_call = "is_matplotlib_svg"
    /\ cl_ret = TRUE
    /\ Signatures(svg) # {}
    /\ \A k \in Signatures(svg) : svg.nodes[k].kind = "comment" /\ svg.nodes[k].depth > 1
    /\ Len(svg.nodes) >= 2

\* C15: cleanup returns the sum of its three sub-operations, run in the order
\* background-rect removal, style-block removal, font normalization: one for a
\* removed rect, one for a removed style block, one for an element whose font-family
\* was rewritten; 0 with the tree unchanged when no condition matches.
C15_CleanupSumsSubOperations ==
    cl_call = "cleanup_matplotlib_svg" =>
        /\ cl_parts = <<Cardinality(BackgroundRects(svg_before)),
                        Cardinality(StyleBlocks(svg_before)),
                        Cardinality(LibraryFontNodes(svg_before))>>
        /\ cl_ret = cl_parts[1] + cl_parts[2] + cl_parts[3]
        /\ (/\ BackgroundRects(svg_before) = {}
            /\ StyleBlocks(svg_before) = {}
            /\ LibraryFontNodes(svg_before) = {})
                => cl_ret = 0 /\ svg = svg_before
        /\ (/\ BackgroundRects(svg_before) # {}
            /\ StyleBlocks(svg_before) # {}
            /\ LibraryFontNodes(svg_before) # {})
                => cl_ret >= 3

\* A first pass over a document with a background rect, a style block whose font rule
\* is inlined onto an element, and that element's font rewritten.
C15_Witness ==
    /\ cl_call = "cleanup_matplotlib_svg"
    /\ passes = 1
    /\ cl_parts[1] >= 1 /\ cl_parts[2] >= 1 /\ cl_parts[3] >= 1
    /\ cl_ret >= 3
    /\ \E k \in LibraryFontNodes(svg_before) : OwnFont(svg_before.nodes[k]) = ""

\* ------------------------------------------------- the batch processor, the claims
\* the inputs of the result entries, in order
InputsOf(results) == [i \in DOMAIN results |-> results[i].input]

BasenamesOf(fl) == [i \in DOMAIN fl |-> Basename(fl[i])]

ImproveCompleted ==
    bpc = "done" /\ batch_fn = "batch_improve" /\ response.kind = "complete"

\* C16: per-file failures are isolated in batch_improve. Every attempted file has
\* exactly one entry in file_results, in input order, an error entry when its
\* processing raised, the batch is never aborted by a file, and files_processed +
\* files_failed is the number of attempted files.
C16_OneEntryPerAttemptedFile ==
    ImproveCompleted =>
        /\ response.status = "success"
        /\ InputsOf(file_results) = BasenamesOf(files)
        /\ response.files_processed + response.files_failed = Len(files)

ElementsOf(seq) == {seq[i] : i \in DOMAIN seq}

\* the manifest the running call loaded
LoadedManifest ==
    IF at_call.manifest.exists THEN at_call.manifest.entries ELSE <<>>

\* an incremental batch_improve that got past its two checks
IncrementalRun ==
    batch_fn = "batch_improve" /\ incremental /\ listed # <<>>

\* C17: in incremental mode a candidate file is processed in a run exactly when it
\* has no manifest entry or its modification time differs from the recorded one;
\* a run none of whose candidates changed reports nothing to process, processes no
\* file and writes nothing.
C17_IncrementalSelectsChangedFiles ==
    IncrementalRun =>
        /\ \A p \in ElementsOf(listed) :
                p \in ElementsOf(files) <=>
                    \/ p \notin DOMAIN LoadedManifest
                    \/ seen_mtime[p] # LoadedManifest[p]
        /\ \A p \in ElementsOf(files) : p \in ElementsOf(listed)
        /\ bpc = "done" =>
                \A p \in ElementsOf(files) :
                    \E i \in DOMAIN file_results : file_results[i].input = Basename(p)
        /\ files = <<>> =>
                /\ bpc = "done"
                /\ response.status = "success"
                /\ response.kind = "up to date"
                /\ response.files_processed = 0
                /\ file_results = <<>>
                /\ out_files = at_call.written
                /\ manifest_file = at_call.manifest

\* a second run skips a file whose entry matches and processes again a file that
\* was modified after the first run recorded it
C17_Witness ==
    /\ IncrementalRun
    /\ bpc = "done"
    /\ Len(listed) = 2
    /\ Len(files) = 1
    /\ files[1] \in DOMAIN LoadedManifest
    /\ seen_mtime[files[1]] > LoadedManifest[files[1]]
    /\ \E i \in DOMAIN file_results :
            file_results[i].input = Basename(files[1]) /\ file_results[i].status = "ok"

ImproveCalled == batch_fn = "batch_improve" /\ bpc # "idle"

\* C18: batch_improve answers an unknown template id, and a path with no
\* processable file, with an error response and without any side effect: no
\* output directory, no manifest, no output file, no file processed. The template
\* is checked first: an unknown id is what is reported when there are no files
\* either.
C18_ErrorsHaveNoSideEffect ==
    /\ ImproveCalled /\ template_id \notin TEMPLATE_IDS =>
            /\ bpc = "done"
            /\ response.status = "error"
            /\ response.kind = "template not found"
    /\ ImproveCalled /\ template_id \in TEMPLATE_IDS /\ env_steps = 0
                     /\ list_processable_files(fs) = <<>> =>
            /\ bpc = "done"
            /\ response.status = "error"
            /\ response.kind = "no processable files"
    /\ ImproveCalled /\ bpc = "done" /\ response.status = "error" =>
            /\ template_id \notin TEMPLATE_IDS \/ listed = <<>>
            /\ out_dir_made = at_call.dir
            /\ out_files = at_call.written
            /\ manifest_file = at_call.manifest
            /\ temp_files = at_call.temps
            /\ file_results = <<>>

\* an unknown template on a directory without processable files, before any
\* output directory exists
C18_Witness ==
    /\ ImproveCalled
    /\ template_id \notin TEMPLATE_IDS
    /\ env_steps = 0
    /\ list_processable_files(fs) = <<>>
    /\ response.kind = "template not found"
    /\ ~out_dir_made

AnalyzeCalled == batch_fn = "batch_analyze" /\ bpc # "idle"

\* C19: analysis is a dry run. While batch_analyze runs and after it returned, the
\* output directory, the output files and the manifest are what they were when it
\* was called; the only file it has written is the temporary SVG of the PDF whose
\* analyze_file is running, and none is left when analyze_file has returned or
\* raised, nor when batch_analyze returns.
C19_AnalysisIsDryRun ==
    AnalyzeCalled =>
        /\ out_dir_made = at_call.dir
        /\ out_files = at_call.written
        /\ manifest_file = at_call.manifest
        /\ bpc = "analyze_finally" =>
                temp_files \subseteq at_call.temps \cup {AnalyzeTemp(files[pos])}
        /\ bpc \in {"analyze", "done"} => temp_files = at_call.temps
        /\ bpc = "done" /\ response.status = "success" =>
                InputsOf(file_results) = BasenamesOf(files)

\* batch_analyze has returned from a directory whose PDF it analysed through a
\* temporary SVG, after an earlier batch_improve had made the output directory
C19_Witness ==
    /\ AnalyzeCalled
    /\ bpc = "done"
    /\ temp_files = {}
    /\ \E i \in DOMAIN file_results :
            /\ Ext(files[i]) \in PDF_EXTENSIONS
            /\ file_results[i].status = "analyzed"
    /\ runs = 2
    /\ out_dir_made

\* ------------------------------------------------- the template store, the claims
\* what "$" leaves of a string for the pattern to cover
UpToDollar(s) ==
    IF s # "" /\ Char(s, Len(s)) = "\n" THEN SubSeq(s, 1, Len(s) - 1) ELSE s

\* an id of letters, digits, "_" and "-", as the id pattern accepts it
IdAccepted(id) ==
    /\ UpToDollar(id) # ""
    /\ \A i \in 1..Len(UpToDollar(id)) : IsIdChar(Char(UpToDollar(id), i))

\* "#" and three or six hex digits, as the colour pattern accepts it
ColourAccepted(c) ==
    /\ Len(UpToDollar(c)) \in {4, 7}
    /\ Char(c, 1) = "#"
    /\ \A i \in 2..Len(UpToDollar(c)) : IsHexDigit(Char(c, i))

LastSaveValid ==
    /\ IdAccepted(tpl_id)
    /\ template_data.name # None
    /\ template_data.palette # <<>>
    /\ \A i \in DOMAIN template_data.palette : ColourAccepted(template_data.palette[i])

LastSaveOfBuiltin ==
    ~force /\ tpl_id \in BUILTIN_IDS /\ tpl_id \notin DOMAIN stored_before

LastSaveStored ==
    /\ tpl_response.status = "success"
    /\ DOMAIN user_templates = DOMAIN stored_before \cup {tpl_id}
    /\ user_templates[tpl_id].name = template_data.name
    /\ user_templates[tpl_id].palette = template_data.palette
    /\ user_templates[tpl_id].custom
    /\ \A k \in DOMAIN stored_before \ {tpl_id} : user_templates[k] = stored_before[k]

LastSaveRejected ==
    tpl_response.status = "error" /\ user_templates = stored_before

LastDelete == tpl_op = "delete_template"

\* C21: the built-in templates are immutable under save_template and
\* delete_template. delete_template removes the user entry of its id and nothing
\* else, answers an id without a user entry (built-in only, or unknown) with an
\* error that changes nothing, and once the user override of a built-in id is
\* deleted load_templates gives the built-in definition of that id again.
C21_BuiltinsImmutable ==
    /\ builtin_templates = BuiltinTemplates
    /\ LastDelete /\ tpl_id \in DOMAIN stored_before =>
            /\ tpl_response.status = "success"
            /\ DOMAIN user_templates = DOMAIN stored_before \ {tpl_id}
            /\ \A k \in DOMAIN user_templates : user_templates[k] = stored_before[k]
            /\ tpl_id \in BUILTIN_IDS =>
                    load_templates(builtin_templates, user_templates)[tpl_id]
                        = BuiltinTemplates[tpl_id]
    /\ LastDelete /\ tpl_id \notin DOMAIN stored_before =>
            /\ tpl_response.status = "error"
            /\ user_templates = stored_before

\* the forced user override of a built-in id has been deleted, another user
\* template stays, and the id loads as the built-in again
C21_Witness ==
    /\ LastDelete
    /\ tpl_response.status = "success"
    /\ tpl_id \in BUILTIN_IDS
    /\ stored_before[tpl_id] # BuiltinTemplates[tpl_id]
    /\ user_templates # <<>>
    /\ load_templates(builtin_templates, user_templates)[tpl_id] = BuiltinTemplates[tpl_id]

\* what a cleanup of the tree counts: its background rects, style blocks and
\* elements with the library font
CleanupCount(tree) ==
    Cardinality(BackgroundRects(tree)) + Cardinality(StyleBlocks(tree))
        + Cardinality(LibraryFontNodes(tree))

\* C22: cleanup_matplotlib of process_single_file is a tri-state. True runs the
\* cleanup whatever the detector says, False never runs it, None runs it exactly
\* when the detector recognizes the document; matplotlib_detected reports whether
\* the cleanup ran, and modifications is the cleanup's count (0 when it did not
\* run) plus the `modified` of the template code.
C22_CleanupTriState ==
    cl_call = "process_single_file" =>
        /\ cl_ret.matplotlib_detected <=>
                \/ cleanup_matplotlib = "True"
                \/ cleanup_matplotlib = "None" /\ Signatures(svg_before) # {}
        /\ cl_ret.matplotlib_detected =>
                /\ cl_ret.modifications = CleanupCount(svg_before) + code_modified
                /\ StyleBlocks(svg) = {}
        /\ ~cl_ret.matplotlib_detected =>
                /\ cl_ret.modifications = code_modified
                /\ svg = svg_before

\* cleanup forced on a document the detector does not recognize, which has
\* something to clean, with template code that modified elements too
C22_Witness ==
    /\ cl_call = "process_single_file"
    /\ cleanup_matplotlib = "True"
    /\ Signatures(svg_before) = {}
    /\ CleanupCount(svg_before) >= 2
    /\ code_modified = 2
    /\ cl_ret.modifications = CleanupCount(svg_before) + 2

\* the palette entries chosen (as best_match) before iteration j
ChosenBefore(j) == {assigned[k] : k \in 1..(j - 1)} \ {None}

\* the colour a found colour has once the mapping is applied
FinalColour(c) == IF c \in DictKeys(color_map) THEN DictGet(color_map, c) ELSE c

\* C23: palette slots are unique until the palette is exhausted. While a palette
\* entry is still unchosen no entry is chosen for two different found colours, an
\* entry chosen by a found colour equal to it counting as used too; with at least
\* as many palette entries as found colours, distinct found colours end with
\* distinct final colours.
C23_SlotsUniqueUntilExhausted ==
    (mpc = "done" /\ WellFormedInputs) =>
        /\ \A j \in 1..Len(assigned) : \A i \in 1..(j - 1) :
                (assigned[j] # None /\ assigned[i] = assigned[j])
                    => \A n \in ParsedPalette : palette[n] \in ChosenBefore(j)
        /\ (/\ Len(palette) >= Len(found_colors)
            /\ \A n, m \in 1..Len(palette) : palette[n] = palette[m] => n = m)
                => \A i, j \in 1..Len(found_colors) :
                        i # j => FinalColour(found_colors[i][1]) # FinalColour(found_colors[j][1])

\* ------------------------------------------ the colour map applied, the claims
\* the generated code has run on the file as it now is
CodeRanOnDoc == ap_cycles > 0 /\ ap_pc = "watch" /\ ~ap_changed

\* the colour map the generated code was given
AppliedMap == MapOfOpts(ap_opts)

\* the style sites (fill, stroke) of node i that are written as a key of the map
KeyedStyleSites(i) ==
    {k \in 1..2 : /\ HasStyle(ap_doc[i])
                  /\ SiteValues(ap_doc[i])[k] # ""
                  /\ Lower(SiteValues(ap_doc[i])[k]) \in DictKeys(AppliedMap)}

\* C24: applying a map that auto_map_colors returned is a simultaneous
\* substitution: every style site that held a key s of the map holds M[s]
\* afterwards and nothing else, also when M[s] is itself a key of the map.
C24_SimultaneousSubstitution ==
    (CodeRanOnDoc /\ ap_computed > 0) =>
        \A i \in DOMAIN ap_doc : \A k \in KeyedStyleSites(i) :
            Lower(SiteValues(ap_out[i])[k])
                = Lower(DictGet(AppliedMap, Lower(SiteValues(ap_doc[i])[k])))


\* no destination of the map is one of its keys
Unchained(map) ==
    \A k \in DOMAIN map : normalize_color(map[k][2]) \notin DictKeys(map)

\* C25: after a colour map is applied, no site that extract_colors reads (style
\* fill, style stroke, attribute fill, attribute stroke) still holds a colour that
\* is a key of the map.
C25_EverySiteRemapped ==
    (CodeRanOnDoc /\ Unchained(AppliedMap)) =>
        \A key \in DictKeys(AppliedMap) : key \notin DictKeys(extract_colors(ap_out))


\* the map batch_improve would compute from the file as it now is
MapOfDoc == auto_map_colors(extract_data_colors(ap_doc, 1), ap_palette)

\* C30: in a watch with auto_color the first cycle that computes a colour map
\* stores it in the shared options dict, and every later cycle keeps exactly that
\* map and never computes one again.
C30_MapFixedByFirstCycle ==
    [][/\ ap_opts.has_color_map => (ap_opts' = ap_opts /\ ap_computed' = ap_computed)
       /\ ap_computed' # ap_computed =>
            (ap_opts'.has_color_map /\ ap_opts'.color_map = MapOfDoc)]_vars

\* a second cycle ran on a file whose colours changed after the map was computed,
\* and the options dict still holds the map of the first cycle
C30_Witness ==
    /\ ap_cycles = 2
    /\ ap_computed = 1
    /\ CodeRanOnDoc
    /\ MapOfDoc # ap_opts.color_map


\* -------------------------------------------------- analyze_colors, the claims
\* the colours of a list of (colour, count) pairs
ColoursOf(pairs) == {pairs[k][1] : k \in DOMAIN pairs}

\* the count a list of (colour, count) pairs gives a colour, 0 if it gives none or
\* gives it twice
CountIn(pairs, colour) ==
    IF Cardinality({k \in DOMAIN pairs : pairs[k][1] = colour}) = 1
    THEN pairs[CHOOSE k \in DOMAIN pairs : pairs[k][1] = colour][2]
    ELSE 0

\* C26: analyze_colors partitions the colours of the document: every key of
\* all_colors is in exactly one of data_colors and grayscale_colors, with the same
\* count, nothing else is in either, and total_unique_colors is the sum of their
\* lengths; suggested_mapping is there exactly when a non-empty palette was
\* passed, and its keys are data colours.
C26_AnalyzePartitions ==
    call = "analyze_colors" =>
        /\ ColoursOf(ret.data_colors) \cup ColoursOf(ret.grayscale_colors)
                = ColoursOf(ret.all_colors)
        /\ ColoursOf(ret.data_colors) \cap ColoursOf(ret.grayscale_colors) = {}
        /\ \A c \in ColoursOf(ret.all_colors) :
                CountIn(ret.data_colors \o ret.grayscale_colors, c)
                    = CountIn(ret.all_colors, c)
        /\ ret.total_unique_colors = Len(ret.data_colors) + Len(ret.grayscale_colors)
        /\ ret.has_suggested_mapping
                <=> (template_palette.passed /\ Len(template_palette.entries) > 0)
        /\ ColoursOf(ret.suggested_mapping) \subseteq ColoursOf(ret.data_colors)

\* analyze_colors ran with a palette on a document that holds a grayscale colour
\* and a data colour counted once, and suggested a mapping
C26_Witness ==
    /\ call = "analyze_colors"
    /\ ret.grayscale_colors # <<>>
    /\ \E k \in DOMAIN ret.data_colors : ret.data_colors[k][2] = 1
    /\ ret.has_suggested_mapping
    /\ ret.suggested_mapping # <<>>


\* ------------------------------------ the manifest and the outputs, the claims
\* no batch call is running
Quiescent == bpc \in {"idle", "done"}

\* file p was modified after process_single_file last read it
ModifiedSinceRead(p) ==
    fs[p].exists /\ read_mtime[p] # 0 /\ fs[p].mtime # read_mtime[p]

\* C27: incremental processing loses no update: a file that was modified after
\* process_single_file read it, also when that was before its manifest entry was
\* recorded, is selected by an incremental run that starts later.
C27_NoLostUpdate ==
    (Quiescent /\ manifest_file.exists) =>
        \A p \in FIGURE_PATHS :
            ModifiedSinceRead(p) =>
                p \in ElementsOf(filter_changed_files(fs, list_processable_files(fs),
                                                      load_manifest(manifest_file)))


\* an incremental batch_improve that is processing its files or has returned
IncrementalProcessing ==
    IncrementalRun /\ files # <<>> /\ bpc \in {"process", "manifest", "done"}

\* process_single_file returned for file p in the running call
ReturnedFor(p) ==
    \E k \in DOMAIN file_results :
        file_results[k].input = Basename(p) /\ file_results[k].status = "ok"

\* the processing of file p raised in the running call
RaisedFor(p) ==
    /\ ~ReturnedFor(p)
    /\ \E k \in DOMAIN file_results :
        file_results[k].input = Basename(p) /\ file_results[k].status = "error"

\* the entry of file p is the one the call loaded, or p has none in both
SameEntry(man, p) ==
    /\ p \in DOMAIN man <=> p \in DOMAIN LoadedManifest
    /\ p \in DOMAIN man => man[p] = LoadedManifest[p]

\* C28: only successes are recorded in the manifest: an entry is written or
\* updated only for a file process_single_file returned for; a file whose
\* processing raised keeps the entry it had, or none, and the next incremental run
\* selects it again; the entries of files the run did not attempt stay as they were.
C28_OnlySuccessesRecorded ==
    IncrementalProcessing =>
        /\ \A p \in PATHS : ~SameEntry(manifest, p) => ReturnedFor(p)
        /\ \A p \in PATHS : RaisedFor(p) => SameEntry(manifest, p)
        /\ \A p \in PATHS : p \notin ElementsOf(files) => SameEntry(manifest, p)
        /\ bpc = "done" =>
            /\ manifest_file = [exists |-> TRUE, entries |-> manifest]
            /\ \A p \in PATHS :
                (RaisedFor(p) /\ fs[p].exists) =>
                    p \in ElementsOf(filter_changed_files(fs, list_processable_files(fs),
                                                          load_manifest(manifest_file)))

\* an incremental run returned in which the processing of a file that had a
\* manifest entry raised, a file with an entry was not attempted, and both
\* entries are in the saved manifest as they were loaded
C28_Witness ==
    /\ IncrementalProcessing
    /\ bpc = "done"
    /\ \E p \in PATHS : \E q \in PATHS :
        /\ RaisedFor(p)
        /\ p \in DOMAIN LoadedManifest
        /\ q \notin ElementsOf(files)
        /\ q \in DOMAIN LoadedManifest
        /\ manifest_file.entries[p] = LoadedManifest[p]
        /\ manifest_file.entries[q] = LoadedManifest[q]


\* C29: within one batch_improve run, two different input files that are reported
\* with status ok have different outputs in the output directory, so no output
\* overwrites the output of another input.
C29_DistinctOutputs ==
    batch_fn = "batch_improve" =>
        \A i \in DOMAIN file_results : \A j \in DOMAIN file_results :
            (/\ file_results[i].status = "ok"
             /\ file_results[j].status = "ok"
             /\ file_results[i].input # file_results[j].input)
                => file_results[i].output # file_results[j].output
====
